---- MODULE Spec2Model ----
(***************************************************************************)
(* Storage and workflow engine of velocity: one content item               *)
(* T = (tenant, type, id, ext) on a versioning S3 bucket, as driven by the *)
(* HTTP handlers of internal/api and by S3Storage of internal/storage.     *)
(*                                                                         *)
(* Spec      every handler is one action (a sequential client) and every   *)
(*           backend call succeeds; the prune goroutine spawned by         *)
(*           PutStream is a separate background step.                      *)
(* FaultSpec the same handlers when backend calls may fail.                *)
(* ConcSpec  two transition requests on the item run concurrently, one     *)
(*           backend call at a time.                                       *)
(* PruneSpec live writes through PutStream while two prune goroutines run  *)
(*           concurrently, one backend call at a time.                     *)
(* RetentionSpec live writes on a store created with MaxVersions <= 0.     *)
(* ProbeSpec content writes and deletes followed by storage reads, with    *)
(*           failing backend calls.                                        *)
(* ObjectSpec content writes that carry a MIME type and metadata.          *)
(* VersionSpec writes, deletes and restores of versions, with pruning.      *)
(* HistorySpec content writes and transitions that build up a history.     *)
(* BackendSpec the handlers of HistorySpec on a bucket with or without      *)
(*           versioning.                                                   *)
(* ResolveSpec content reads by id over every set of stored files.          *)
(* SchemaSpec writes, deletes and lookups of global and tenant schemas.     *)
(* RaceSpec   one step-wise transition racing with writes and comments.     *)
(* CarrySpec  transitions of items stored with a MIME type and metadata.    *)
(* MetaSpec   metadata replacement, merge and key removal on stored items.  *)
(* MetaRaceSpec two metadata changes of one item, one backend call per step. *)
(* SiblingSpec writes and prunes of T and of a key that extends T's key,    *)
(*            and version listings of T.                                    *)
(* WebhookSpec webhook registration and the fan-out of an event.             *)
(* TenantSpec the tenant-scoped operations issued under several X-Tenant    *)
(*            header values.                                                *)
(***************************************************************************)
EXTENDS Integers, Sequences, FiniteSets, TLC

\* ------------------------------------------------------------------------
\* Bounds and configuration
\* ------------------------------------------------------------------------

\* Version identifiers the backend hands out: 1..MaxVid (0 is the empty id).
MaxVid == 2

\* S3Config.MaxVersions the server is started with (a positive retention limit).
ConfiguredMaxVersions == 1

\* The limit NewS3Storage substitutes for a configured 0.
DefaultMaxVersions == 10

\* S3Config.MaxVersions values that are meant to switch retention limits off.
Unlimited == {-2, -1, 0}

\* Version identifiers handed out while the retention setting is examined.
MaxRetentionVid == 11

\* Version identifiers handed out while prune goroutines run step by step.
MaxPruneVid == 3

\* Version identifiers handed out while versions are restored and deleted.
MaxVersionVid == 3

\* Version identifiers handed out while publishes are recorded.
MaxHistoryVid == 3
MaxSiblingVid == 4
MaxMetaVid == 2

StateDraft == "draft"
StatePending == "pending"
StateLive == "live"

States == {StateDraft, StatePending, StateLive}
NonLive == {StateDraft, StatePending}

Bytes == {"b1", "b2"}
None == "none"
Marker == "marker"
NoVersion == 0

\* MIME types and X-Meta-* headers a content request carries.
MimeTypes == {"text/html", "image/png"}
MetaKeys == {"k1"}
MetaValues == {"v1", "v2"}

CommentIDs == {"c1"}
Absent == "absent"
Open == "open"
Resolved == "resolved"

\* (author, message) pairs a transition request carries.
Signoffs == {<<"a1", "m1">>, <<"a2", "m2">>}

\* Request handlers that run concurrently.
Workers == {"w1", "w2"}

VARIABLES
    content,    \* _draft/ and _pending/ objects: NonLive -> Bytes or None
    live,       \* version stack of the live key, newest first
    nextVid,    \* next version id the backend assigns
    comments,   \* comment objects: States -> CommentIDs -> status
    history,    \* _history/ records, at most one per version
    pruning,    \* prune goroutines spawned and not yet finished
    last,       \* the last handler call and its response
    workers,    \* concurrent requests and goroutines: position and locals
    cfgMaxVersions, \* S3Config.MaxVersions the store was created with
    attrs,      \* Content-Type and user metadata of the object Get reads in a
                \* state; followed by the handlers of ObjectSpec only
    versioning, \* is versioning enabled on the bucket?
    files,      \* file names stored under the content prefix of one state of
                \* one type, each a sequence of "."-separated segments;
                \* followed by ResolveSpec only
    bucket,     \* the objects outside T's content type (schemas, webhooks, the
                \* objects of other tenants): records of key, owner and body;
                \* followed by SchemaSpec and TenantSpec only
    sibling     \* the version stack of the live key T.json.bak, which has T's
                \* live key as a prefix, newest first; followed by SiblingSpec
                \* only

vars == <<content, live, nextVid, comments, history, pruning, last, workers, cfgMaxVersions, attrs, versioning, files, bucket, sibling>>
store == <<content, live, nextVid, comments, history>>

\* NewS3Storage: the retention limit kept for a configured value.
NewS3Storage(configured) == IF configured = 0 THEN DefaultMaxVersions ELSE configured

\* S3Storage.maxVersions.
maxVersions == NewS3Storage(cfgMaxVersions)

\* ------------------------------------------------------------------------
\* Backend reads
\* ------------------------------------------------------------------------

\* The object versions of the live key (delete markers are not versions).
Versions(l) == SelectSeq(l, LAMBDA e : e.bytes # Marker)

\* The version ids of a version stack, newest first.
VersionIds(l) == [i \in 1..Len(Versions(l)) |-> Versions(l)[i].vid]

\* T's live key and a key that extends it (item T.json with extension bak),
\* as "."-separated segments.
liveKey == <<"T", "json">>
siblingKey == <<"T", "json", "bak">>

\* strings.HasPrefix on keys given as segments.
KeyHasPrefix(key, prefix) ==
    Len(prefix) <= Len(key) /\ \A i \in 1..Len(prefix) : key[i] = prefix[i]

\* s3.ListObjectVersions with a prefix: the versions of every key that starts
\* with it, in key order and newest first within a key.
VersionsOfKey(key, l) == [i \in 1..Len(Versions(l)) |-> [Key |-> key, VersionId |-> Versions(l)[i].vid]]
ListObjectVersions(prefix) ==
    (IF KeyHasPrefix(liveKey, prefix) THEN VersionsOfKey(liveKey, live) ELSE <<>>)
    \o (IF KeyHasPrefix(siblingKey, prefix) THEN VersionsOfKey(siblingKey, sibling) ELSE <<>>)

\* A filter that keeps every listed version.
C27_PrefixMatches(listed, key) == listed

\* The filter of ListVersions and pruneVersions: only versions of this exact
\* key, not prefix matches.
ExactKey(listed, key) == SelectSeq(listed, LAMBDA v : v.Key = key)

\* The version ids ListVersions and pruneVersions work on for a key.
ObjectVersions(key) ==
    [i \in 1..Len(ExactKey(ListObjectVersions(key), key)) |->
        ExactKey(ListObjectVersions(key), key)[i].VersionId]

\* S3Storage.ListVersions: version ids of the live key, newest first.
ListVersions == ObjectVersions(liveKey)

\* GetObject on the live key: the newest entry unless it is a delete marker.
LiveBytes(l) == IF l = <<>> \/ Head(l).bytes = Marker THEN None ELSE Head(l).bytes

\* S3Storage.Get against a store (c, l): the bytes stored in a state, or None
\* (not found).
GetIn(c, l, st) == IF st = StateLive THEN LiveBytes(l) ELSE c[st]

\* S3Storage.Get against the current store.
Get(st) == GetIn(content, live, st)

\* GetObject on the live key with a version id: the bytes stored at that
\* version of a version stack, or None.
GetVersionIn(l, vid) ==
    IF \E i \in 1..Len(l) : l[i].vid = vid /\ l[i].bytes # Marker
    THEN (CHOOSE e \in {l[i] : i \in 1..Len(l)} : e.vid = vid).bytes
    ELSE None

\* A read by version id that returns the current version.
C19_ReadsCurrent(vid) == LiveBytes(live)

\* S3Storage.GetVersion: the bytes stored at a version id, or None.
GetVersion(vid) == GetVersionIn(live, vid)

\* Comment ids stored under a state's _comments prefix.
Present(st) == {c \in CommentIDs : comments[st][c] # Absent}

\* S3Storage.ListComments: the stored comments whose object could be read.
ListComments(st, unread) == Present(st) \ unread

\* A gate that never finds an unresolved comment.
C1_GateOpen(st, listed) == FALSE

\* S3Storage.HasUnresolvedComments over a listing.
HasUnresolvedComments(st, listed) == \E c \in listed : comments[st][c] # Resolved

\* A lookup that returns the version of the oldest record.
C21_OldestRecord ==
    IF history = {} THEN NoVersion
    ELSE (CHOOSE r \in history : \A q \in history : r.timestamp <= q.timestamp).version

\* S3Storage.GetLatestHistoryVersion: version of the record with the greatest
\* timestamp, the empty version for an empty history.
GetLatestHistoryVersion ==
    IF history = {} THEN NoVersion
    ELSE (CHOOSE r \in history : \A q \in history : q.timestamp <= r.timestamp).version

\* ------------------------------------------------------------------------
\* Keys and listings
\* ------------------------------------------------------------------------

\* Keys are the path segments below {root}/tenants/{tenant}/content/{type}/.
\* contentKey: the key of the item in a state.
contentKey(st) == IF st = StateLive THEN <<"T.json">> ELSE <<"_" \o st, "T.json">>

\* contentPrefix: the prefix List uses for a state.
contentPrefix(st) == IF st = StateLive THEN <<>> ELSE <<"_" \o st>>

\* commentKey and historyKey.
commentKey(st, c) == <<"_" \o st, "_comments", "T", c \o ".json">>
historyKey(version) == <<"_history", "T", ToString(version) \o ".json">>

\* The keys ListObjectsV2 returns: every object that currently exists.
Objects ==
    {contentKey(st) : st \in {x \in States : Get(x) # None}}
    \cup UNION {{commentKey(st, c) : c \in Present(st)} : st \in NonLive}
    \cup {historyKey(r.version) : r \in history}

\* strings.HasPrefix(key, prefix) and strings.Contains(key, "/dir/").
HasPrefix(key, prefix) ==
    Len(prefix) <= Len(key) /\ \A i \in 1..Len(prefix) : key[i] = prefix[i]
ContainsDir(key, dir) == \E i \in 1..(Len(key) - 1) : key[i] = dir

\* S3Storage.List: the keys under the state's prefix; a live listing skips
\* the keys under the draft and pending directories.
List(st) ==
    {key \in Objects :
        /\ HasPrefix(key, contentPrefix(st))
        /\ ~(st = StateLive /\ (ContainsDir(key, "_draft") \/ ContainsDir(key, "_pending")))}

\* ------------------------------------------------------------------------
\* Backend writes (new values of the store)
\* ------------------------------------------------------------------------

\* A write that lands in both non-live states.
C28_PutSpills(c, st, b) == IF st \in NonLive THEN [s \in NonLive |-> b] ELSE c

\* A target write that is acknowledged and lost.
C2_PutLost(c, st, b) == c

\* PutObject at contentKey(.., st).
PutContent(c, st, b) == IF st \in NonLive THEN [c EXCEPT ![st] = b] ELSE c
\* A live write that does not become the current version.
C10_PutUnderneath(l, st, b, vid) ==
    IF st = StateLive THEN l \o <<[vid |-> vid, bytes |-> b]>> ELSE l

\* PutObject on the live key: a new current version.
\* (without versioning: the only version, under the empty version id).
PutLive(l, st, b, vid) ==
    IF st # StateLive THEN l
    ELSE IF versioning THEN <<[vid |-> vid, bytes |-> b]>> \o l
    ELSE <<[vid |-> NoVersion, bytes |-> b]>>

\* A source delete that is skipped.
C4_DeleteSkipped(c, st) == c

\* DeleteObject at contentKey(.., st) without a version id: a hard delete
\* of a non-live object, a delete marker on the live key.
DeleteContent(c, st) == IF st \in NonLive THEN [c EXCEPT ![st] = None] ELSE c

\* A live delete that removes the current version instead of marking the key.
C20_DeleteErases(l, st, vid) == IF st = StateLive /\ l # <<>> THEN Tail(l) ELSE l

DeleteLive(l, st, vid) ==
    IF st # StateLive THEN l
    ELSE IF versioning THEN <<[vid |-> vid, bytes |-> Marker]>> \o l
    ELSE <<>>

\* Does the call create an entry on the live key's version stack?
Stamps(st) == IF st = StateLive /\ versioning THEN 1 ELSE 0

\* The VersionId of a PutObject result: set on the live key of a bucket with
\* versioning, empty otherwise.
VersionId(st) == IF st = StateLive /\ versioning THEN nextVid ELSE NoVersion

\* ------------------------------------------------------------------------
\* Backend faults
\* ------------------------------------------------------------------------

\* The backend calls of a handler that can fail, and the comment objects whose
\* read (unread) or whose read or delete during cleanup (kept) fails.
CallPoints == {"parent", "list", "get", "put", "delete", "history", "copy", "webhook", "head"}
NoFaults == [calls |-> {}, unread |-> {}, kept |-> {}]

\* A Go map[string]string: nil, or a set of (key, value) entries.
NilMap == [isNil |-> TRUE, entries |-> {}]
MakeMap(entries) == [isNil |-> FALSE, entries |-> entries]

\* The headers of a key that holds no object.
NoHeaders == [mime |-> None, meta |-> {}]

\* The response of a handler.
Reply(op, from, to, status, version, author, message, faults) ==
    [op |-> op, from |-> from, to |-> to, status |-> status, version |-> version,
     author |-> author, message |-> message, faults |-> faults]

\* A request handler that has not been called.
Idle ==
    [pc |-> "idle", from |-> None, to |-> None, parent |-> NoVersion, item |-> None,
     version |-> NoVersion, stamp |-> NoVersion, order |-> NoVersion, status |-> "none",
     doomed |-> <<>>, request |-> <<>>]

\* A bucket, with or without versioning, that holds the stored files and no
\* version of T, behind a store created with a configured MaxVersions.
InitStore(configured, versioned, stored) ==
    /\ cfgMaxVersions = configured
    /\ versioning = versioned
    /\ files = stored
    /\ bucket = {}
    /\ sibling = <<>>
    /\ attrs = [st \in States |-> NoHeaders]
    /\ workers = [w \in Workers |-> Idle]
    /\ content = [st \in NonLive |-> None]
    /\ live = <<>>
    /\ nextVid = 1
    /\ comments = [st \in States |-> [c \in CommentIDs |-> Absent]]
    /\ history = {}
    /\ pruning = 0
    /\ last = Reply("none", None, None, "OK", NoVersion, "", "", {})

\* The empty bucket, with or without versioning.
InitBucket(configured, versioned) == InitStore(configured, versioned, {})

\* The empty bucket with versioning behind a store created with a configured
\* MaxVersions.
InitWith(configured) == InitBucket(configured, TRUE)

Init == InitWith(ConfiguredMaxVersions)

\* ------------------------------------------------------------------------
\* Content handlers
\* ------------------------------------------------------------------------

\* Does a PutStream to this state start the prune goroutine?
PrunesAfter(st) == st = StateLive /\ maxVersions > 0

\* S3Storage.PutStream while version ids up to limit are available and fewer
\* than limit prune goroutines are waiting.
PutStreamWithin(limit, st, b, F) ==
    /\ st = StateLive => nextVid <= limit
    /\ PrunesAfter(st) => pruning < limit
    /\ IF "put" \in F.calls
       THEN /\ UNCHANGED <<content, live, nextVid, pruning>>
            /\ last' = Reply("PutStream", st, st, "BackendUnavailable", NoVersion, "", "", {"put"})
       ELSE /\ content' = PutContent(content, st, b)
            /\ live' = PutLive(live, st, b, nextVid)
            /\ nextVid' = nextVid + Stamps(st)
            /\ pruning' = IF PrunesAfter(st) THEN pruning + 1 ELSE pruning
            /\ last' = Reply("PutStream", st, st, "OK",
                             VersionId(st), "", "",
                             F.calls \cap {"webhook"})
    /\ UNCHANGED <<comments, history, workers, cfgMaxVersions, attrs, versioning, files, bucket, sibling>>

\* createContentHandler / updateContentHandler: S3Storage.PutStream.
PutStream(st, b, F) == PutStreamWithin(MaxVid, st, b, F)

\* uploadHandler: S3Storage.Put, which starts no prune.
Put(st, b, F) ==
    /\ st = StateLive => nextVid <= MaxVid
    /\ IF "put" \in F.calls
       THEN /\ UNCHANGED <<content, live, nextVid>>
            /\ last' = Reply("Put", st, st, "BackendUnavailable", NoVersion, "", "", {"put"})
       ELSE /\ content' = PutContent(content, st, b)
            /\ live' = PutLive(live, st, b, nextVid)
            /\ nextVid' = nextVid + Stamps(st)
            /\ last' = Reply("Put", st, st, "OK",
                             VersionId(st), "", "", {})
    /\ UNCHANGED <<comments, history, pruning, workers, cfgMaxVersions, attrs, versioning, files, bucket, sibling>>

\* S3Storage.Delete while version ids up to limit are available.
DeleteWithin(limit, st, F) ==
    /\ st = StateLive => nextVid <= limit
    /\ IF "delete" \in F.calls
       THEN /\ UNCHANGED <<content, live, nextVid>>
            /\ last' = Reply("Delete", st, st, "BackendUnavailable", NoVersion, "", "", {"delete"})
       ELSE /\ content' = DeleteContent(content, st)
            /\ live' = DeleteLive(live, st, nextVid)
            /\ nextVid' = nextVid + Stamps(st)
            /\ last' = Reply("Delete", st, st, "OK", NoVersion, "", "", {})
    /\ UNCHANGED <<comments, history, pruning, workers, cfgMaxVersions, attrs, versioning, files, bucket, sibling>>

\* deleteContentHandler: S3Storage.Delete.
Delete(st, F) == DeleteWithin(MaxVid, st, F)

\* S3Storage.RestoreVersion while version ids up to limit are available: read
\* the version, then copy it onto the live key; no prune follows.
RestoreVersionWithin(limit, vid, F) ==
    /\ nextVid <= limit
    /\ IF "get" \in F.calls \/ "copy" \in F.calls
       THEN /\ UNCHANGED <<live, nextVid>>
            /\ last' = Reply("RestoreVersion", StateLive, StateLive, "BackendUnavailable",
                             NoVersion, "", "", F.calls \cap {"get", "copy"})
       ELSE IF GetVersion(vid) = None
       THEN /\ UNCHANGED <<live, nextVid>>
            /\ last' = Reply("RestoreVersion", StateLive, StateLive, "NotFound", NoVersion, "", "", {})
       ELSE /\ live' = PutLive(live, StateLive, GetVersion(vid), nextVid)
            /\ nextVid' = nextVid + 1
            /\ last' = Reply("RestoreVersion", StateLive, StateLive, "OK", nextVid, "", "", {})
    /\ UNCHANGED <<content, comments, history, pruning, workers, cfgMaxVersions, attrs, versioning, files, bucket, sibling>>

\* restoreVersionHandler: S3Storage.RestoreVersion.
RestoreVersion(vid, F) == RestoreVersionWithin(MaxVid, vid, F)

\* A prune that takes the listing to be oldest first.
C11_DropsNewest(listed) == {listed[i] : i \in 1..(Len(listed) - maxVersions)}

\* The versions pruneVersions deletes: those after the newest maxVersions.
toDelete(listed) == {listed[i] : i \in (maxVersions + 1)..Len(listed)}

\* pruneVersions, run to completion: list the versions of the key, keep the
\* newest maxVersions, delete the rest one by one; a failed listing or a
\* failed delete (the versions in failed) is logged only.
pruneVersions(listFails, failed) ==
    /\ pruning > 0
    /\ pruning' = pruning - 1
    /\ live' = IF listFails THEN live
               ELSE SelectSeq(live, LAMBDA e : e.vid \notin (toDelete(ListVersions) \ failed))
    /\ last' = Reply("prune", StateLive, StateLive, "OK", NoVersion, "", "", {})
    /\ UNCHANGED <<content, nextVid, comments, history, workers, cfgMaxVersions, attrs, versioning, files, bucket, sibling>>

\* ------------------------------------------------------------------------
\* Comment handlers
\* ------------------------------------------------------------------------

\* A PutComment that takes every state.
C30_AnyState(st) == TRUE

\* S3Storage.PutComment refuses the live state.
CommentAllowed(st) == st # StateLive

\* createCommentHandler: a new unresolved comment under a fresh uuid c.
createCommentHandler(st, c, F) ==
    /\ \A s \in States : comments[s][c] = Absent
    /\ IF ~CommentAllowed(st)
       THEN /\ UNCHANGED comments
            /\ last' = Reply("PutComment", st, st, "InvalidState", NoVersion, "", "", {})
       ELSE IF "put" \in F.calls
       THEN /\ UNCHANGED comments
            /\ last' = Reply("PutComment", st, st, "BackendUnavailable", NoVersion, "", "", {"put"})
       ELSE /\ comments' = [comments EXCEPT ![st][c] = Open]
            /\ last' = Reply("PutComment", st, st, "OK", NoVersion, "", "", {})
    /\ UNCHANGED <<content, live, nextVid, history, pruning, workers, cfgMaxVersions, attrs, versioning, files, bucket, sibling>>

\* updateCommentHandler: read the comment, set or clear resolved, write it back.
updateCommentHandler(st, c, resolved, F) ==
    /\ IF c \notin Present(st) \/ "get" \in F.calls
       THEN /\ UNCHANGED comments
            /\ last' = Reply("UpdateComment", st, st, "NotFound", NoVersion, "", "", F.calls \cap {"get"})
       ELSE IF "put" \in F.calls
       THEN /\ UNCHANGED comments
            /\ last' = Reply("UpdateComment", st, st, "BackendUnavailable", NoVersion, "", "", {"put"})
       ELSE /\ comments' = [comments EXCEPT ![st][c] = IF resolved THEN Resolved ELSE Open]
            /\ last' = Reply("UpdateComment", st, st, "OK", NoVersion, "", "", {})
    /\ UNCHANGED <<content, live, nextVid, history, pruning, workers, cfgMaxVersions, attrs, versioning, files, bucket, sibling>>

\* deleteCommentHandler: S3Storage.DeleteComment.
deleteCommentHandler(st, c, F) ==
    /\ IF "delete" \in F.calls
       THEN /\ UNCHANGED comments
            /\ last' = Reply("DeleteComment", st, st, "BackendUnavailable", NoVersion, "", "", {"delete"})
       ELSE /\ comments' = IF st \in NonLive THEN [comments EXCEPT ![st][c] = Absent] ELSE comments
            /\ last' = Reply("DeleteComment", st, st, "OK", NoVersion, "", "", {})
    /\ UNCHANGED <<content, live, nextVid, history, pruning, workers, cfgMaxVersions, attrs, versioning, files, bucket, sibling>>

\* ------------------------------------------------------------------------
\* Workflow: S3Storage.Transition and transitionHandler
\* ------------------------------------------------------------------------

\* A Transition without its first check.
C13_NeverSame(from, to) == FALSE

\* Transition's first check.
SameState(from, to) == from = to

\* Are the comments of the source state consulted and cleaned up?
ChecksComments(from) == from # StateLive

\* A handler that records every transition as a publish.
C6_AlwaysPublish(to) == TRUE

\* transitionHandler writes a history record for this target.
IsPublish(to) == to = StateLive

\* How S3Storage.Transition ends: its checks and early returns, in order.
C33_MissingSourceAccepted(from, to, F) ==
    IF SameState(from, to) THEN "InvalidTransition"
    ELSE IF ChecksComments(from) /\ "list" \in F.calls THEN "BackendUnavailable"
    ELSE IF ChecksComments(from) /\ HasUnresolvedComments(from, ListComments(from, F.unread))
         THEN "Gated"
    ELSE IF "get" \in F.calls THEN "BackendUnavailable"
    ELSE IF "put" \in F.calls THEN "BackendUnavailable"
    ELSE "OK"

TransitionStatus(from, to, F) ==
    IF SameState(from, to) THEN "InvalidTransition"
    ELSE IF ChecksComments(from) /\ "list" \in F.calls THEN "BackendUnavailable"
    ELSE IF ChecksComments(from) /\ HasUnresolvedComments(from, ListComments(from, F.unread))
         THEN "Gated"
    ELSE IF "get" \in F.calls THEN "BackendUnavailable"
    ELSE IF Get(from) = None THEN "NotFound"
    ELSE IF "put" \in F.calls THEN "BackendUnavailable"
    ELSE "OK"

\* The backend faults that took effect in a transition that ended with status.
TransitionFaults(from, to, F, status) ==
    IF status = "InvalidTransition" THEN {}
    ELSE IF status = "BackendUnavailable"
         THEN IF ChecksComments(from) /\ "list" \in F.calls THEN {"list"}
              ELSE IF "get" \in F.calls THEN {"get"} ELSE {"put"}
    ELSE (IF F.unread \cap Present(from) # {} THEN {"read"} ELSE {})
         \cup (IF status = "OK"
               THEN (F.calls \cap {"delete"})
                    \cup (IF IsPublish(to) THEN F.calls \cap {"history", "webhook"} ELSE {})
                    \cup (IF F.kept \cap Present(from) # {} THEN {"cleanup"} ELSE {})
               ELSE {})

\* A cleanup that deletes nothing.
C7_CleanupSkipped(cm, from, kept) == cm

\* S3Storage.DeleteAllComments: every listed comment is deleted, except the
\* ones whose read or delete failed.
DeleteAllComments(cm, from, kept) ==
    IF from \in NonLive
    THEN [cm EXCEPT ![from] = [c \in CommentIDs |-> IF c \in kept THEN cm[from][c] ELSE Absent]]
    ELSE cm

\* S3Storage.PutHistoryRecord: the object at historyKey(.., version).
PutHistoryRecord(h, record) == {r \in h : r.version # record.version} \cup {record}

\* A record filed under the parent's version instead of the new one.
C5_RecordsParent(version, parent, author, message, timestamp) ==
    [version |-> parent, parent |-> parent, author |-> author,
     message |-> message, timestamp |-> timestamp]

\* The record transitionHandler builds for a publish. The timestamp is
\* time.Now() read after the target write; the clock is logical: the number
\* of version stamps the backend has issued.
HistoryRecord(version, parent, author, message, timestamp) ==
    [version |-> version, parent |-> parent, author |-> author,
     message |-> message, timestamp |-> timestamp]

\* A handler that answers with an error when the history write failed.
C14_HistoryFailureSurfaced(status, F) ==
    IF status = "OK" /\ "history" \in F.calls THEN "BackendUnavailable" ELSE status

\* The status transitionHandler answers with: the outcome of Transition; what
\* the history write and the webhook dispatch do afterwards is not looked at.
ResponseStatus(status, F) == status

\* The whole handler: read the parent version, run S3Storage.Transition
\* (gate, get, put, delete, comment cleanup), then record the publish.
transitionHandlerWithin(limit, from, to, author, message, F) ==
    /\ (from = StateLive \/ to = StateLive) => nextVid <= limit
    /\ LET parentVersion == IF "parent" \in F.calls THEN NoVersion ELSE GetLatestHistoryVersion
           status == TransitionStatus(from, to, F)
           faults == TransitionFaults(from, to, F, status)
           version == VersionId(to)
           c1 == PutContent(content, to, Get(from))
           l1 == PutLive(live, to, Get(from), nextVid)
           v1 == nextVid + Stamps(to)
       IN  IF status # "OK"
           THEN /\ last' = Reply("Transition", from, to, status, NoVersion, "", "", faults)
                /\ UNCHANGED store
           ELSE /\ content' = IF "delete" \in F.calls THEN c1 ELSE DeleteContent(c1, from)
                /\ live' = IF "delete" \in F.calls THEN l1 ELSE DeleteLive(l1, from, v1)
                /\ nextVid' = IF "delete" \in F.calls THEN v1 ELSE v1 + Stamps(from)
                /\ comments' = IF ChecksComments(from)
                               THEN DeleteAllComments(comments, from, F.kept)
                               ELSE comments
                /\ history' = IF IsPublish(to) /\ "history" \notin F.calls
                              THEN PutHistoryRecord(history,
                                       HistoryRecord(version, parentVersion, author, message, v1))
                              ELSE history
                /\ last' = Reply("Transition", from, to, ResponseStatus(status, F), version,
                                 IF to = StateLive THEN author ELSE "",
                                 IF to = StateLive THEN message ELSE "", faults)
    /\ UNCHANGED <<pruning, workers, cfgMaxVersions, attrs, versioning, files, bucket, sibling>>

\* transitionHandler with the version ids of the sequential specification.
transitionHandler(from, to, author, message, F) ==
    transitionHandlerWithin(MaxVid, from, to, author, message, F)

\* ------------------------------------------------------------------------
\* The sequential specification: every backend call succeeds
\* ------------------------------------------------------------------------

Next ==
    \/ \E st \in States, b \in Bytes : PutStream(st, b, NoFaults)
    \/ \E st \in States, b \in Bytes : Put(st, b, NoFaults)
    \/ \E st \in States : Delete(st, NoFaults)
    \/ \E vid \in 1..MaxVid : RestoreVersion(vid, NoFaults)
    \/ pruneVersions(FALSE, {})
    \/ \E st \in States, c \in CommentIDs : createCommentHandler(st, c, NoFaults)
    \/ \E st \in NonLive, c \in CommentIDs, r \in BOOLEAN : updateCommentHandler(st, c, r, NoFaults)
    \/ \E st \in NonLive, c \in CommentIDs : deleteCommentHandler(st, c, NoFaults)
    \/ \E from \in States, to \in States, so \in Signoffs :
          transitionHandler(from, to, so[1], so[2], NoFaults)

Spec == Init /\ [][Next]_vars

\* ------------------------------------------------------------------------
\* The same handlers when backend calls may fail
\* ------------------------------------------------------------------------

\* The fault choices that take effect in a transition from this source: one
\* failing call that ends it early, or any failures of the calls that follow
\* the target write.
TransitionFaultChoices(from, to) ==
    LET early == {[NoFaults EXCEPT !.calls = {c}] : c \in {"list", "get", "put"}}
        after == {"delete"} \cup (IF IsPublish(to) THEN {"history", "parent", "webhook"} ELSE {})
        late  == {[calls |-> c, unread |-> u, kept |-> k] :
                     c \in SUBSET after, u \in SUBSET Present(from), k \in SUBSET Present(from)}
    IN  {F \in early \cup late :
            LET status == TransitionStatus(from, to, F)
            IN  /\ F.calls \ {"parent"} = TransitionFaults(from, to, F, status) \cap CallPoints
                /\ "parent" \in F.calls => (status = "OK" /\ history # {})
                /\ status # "OK" => F.kept = {}}

\* The signoffs that make a difference to a transition into this target.
SignoffsFor(to) == IF IsPublish(to) THEN Signoffs ELSE {<<"a1", "m1">>}

FaultNext ==
    \/ \E st \in States, b \in Bytes, calls \in SUBSET {"webhook"} :
          PutStream(st, b, [NoFaults EXCEPT !.calls = calls])
    \/ \E st \in States : Delete(st, NoFaults)
    \/ \E listFails \in BOOLEAN, failed \in SUBSET toDelete(ListVersions) :
          pruneVersions(listFails, failed)
    \/ \E st \in NonLive, c \in CommentIDs : createCommentHandler(st, c, NoFaults)
    \/ \E st \in NonLive, c \in CommentIDs, r \in BOOLEAN : updateCommentHandler(st, c, r, NoFaults)
    \/ \E from \in States, to \in States :
          \E so \in SignoffsFor(to), F \in TransitionFaultChoices(from, to) :
             transitionHandler(from, to, so[1], so[2], F)

FaultSpec == Init /\ [][FaultNext]_vars

\* ------------------------------------------------------------------------
\* Concurrent transitions: one backend call per step
\* ------------------------------------------------------------------------

\* The (author, message) of each concurrent request.
Signoff(w) == IF w = "w1" THEN <<"a1", "m1">> ELSE <<"a2", "m2">>

\* No transition request is in flight or finished: the store is being set up.
AllIdle == \A w \in Workers : workers[w].pc = "idle"

\* The number of target writes already acknowledged.
Acknowledged == Cardinality({w \in Workers : workers[w].order # NoVersion})

\* The handler's next position after the source delete or the comment cleanup.
AfterCleanup(to) == IF IsPublish(to) THEN "record" ELSE "done"

\* transitionHandler up to the call of Transition: the states are valid and
\* the parent version is read.
beginTransition(w, from, to) ==
    /\ workers[w].pc = "idle"
    /\ workers' = [workers EXCEPT ![w] =
                      [Idle EXCEPT !.pc = "gate", !.from = from, !.to = to,
                                   !.parent = GetLatestHistoryVersion]]
    /\ UNCHANGED <<store, pruning, last, cfgMaxVersions, attrs, versioning, files, bucket, sibling>>

\* Transition: the same-state check and the comment gate.
TransitionGate(w) ==
    LET r == workers[w] IN
    /\ r.pc = "gate"
    /\ workers' = [workers EXCEPT ![w] =
          IF SameState(r.from, r.to)
          THEN [r EXCEPT !.pc = "failed", !.status = "InvalidTransition"]
          ELSE IF ChecksComments(r.from)
                  /\ HasUnresolvedComments(r.from, ListComments(r.from, {}))
          THEN [r EXCEPT !.pc = "failed", !.status = "Gated"]
          ELSE [r EXCEPT !.pc = "get"]]
    /\ UNCHANGED <<store, pruning, last, cfgMaxVersions, attrs, versioning, files, bucket, sibling>>

\* Transition: read the source.
TransitionGet(w) ==
    LET r == workers[w] IN
    /\ r.pc = "get"
    /\ workers' = [workers EXCEPT ![w] =
          IF Get(r.from) = None
          THEN [r EXCEPT !.pc = "failed", !.status = "NotFound"]
          ELSE [r EXCEPT !.pc = "put", !.item = Get(r.from)]]
    /\ UNCHANGED <<store, pruning, last, cfgMaxVersions, attrs, versioning, files, bucket, sibling>>

\* Transition: write the target (S3Storage.Put, unconditional).
TransitionPut(w) ==
    LET r == workers[w] IN
    /\ r.pc = "put"
    /\ content' = PutContent(content, r.to, r.item)
    /\ live' = PutLive(live, r.to, r.item, nextVid)
    /\ nextVid' = nextVid + Stamps(r.to)
    /\ workers' = [workers EXCEPT ![w] =
          [r EXCEPT !.pc = "delete",
                    !.version = VersionId(r.to),
                    !.stamp = nextVid + Stamps(r.to),
                    !.order = Acknowledged + 1]]
    /\ UNCHANGED <<comments, history, pruning, last, cfgMaxVersions, attrs, versioning, files, bucket, sibling>>

\* Transition: delete the source.
TransitionDelete(w) ==
    LET r == workers[w] IN
    /\ r.pc = "delete"
    /\ content' = DeleteContent(content, r.from)
    /\ live' = DeleteLive(live, r.from, nextVid)
    /\ nextVid' = nextVid + Stamps(r.from)
    /\ workers' = [workers EXCEPT ![w] =
          [r EXCEPT !.pc = IF ChecksComments(r.from) THEN "cleanup" ELSE AfterCleanup(r.to),
                    !.status = IF ChecksComments(r.from) \/ IsPublish(r.to) THEN "none" ELSE "OK"]]
    /\ UNCHANGED <<comments, history, pruning, last, cfgMaxVersions, attrs, versioning, files, bucket, sibling>>

\* Transition: delete the comments of the source state.
TransitionCleanup(w) ==
    LET r == workers[w] IN
    /\ r.pc = "cleanup"
    /\ comments' = DeleteAllComments(comments, r.from, {})
    /\ workers' = [workers EXCEPT ![w] =
          [r EXCEPT !.pc = AfterCleanup(r.to),
                    !.status = IF IsPublish(r.to) THEN "none" ELSE "OK"]]
    /\ UNCHANGED <<content, live, nextVid, history, pruning, last, cfgMaxVersions, attrs, versioning, files, bucket, sibling>>

\* transitionHandler after a publish: write the history record.
recordPublish(w) ==
    LET r == workers[w] IN
    /\ r.pc = "record"
    /\ history' = PutHistoryRecord(history,
                     HistoryRecord(r.version, r.parent, Signoff(w)[1], Signoff(w)[2], r.stamp))
    /\ workers' = [workers EXCEPT ![w] = [r EXCEPT !.pc = "done", !.status = "OK"]]
    /\ UNCHANGED <<content, live, nextVid, comments, pruning, last, cfgMaxVersions, attrs, versioning, files, bucket, sibling>>

\* The store is set up by sequential requests, then the transitions race.
ConcNext ==
    \/ \E st \in States, b \in Bytes : AllIdle /\ Put(st, b, NoFaults)
    \/ \E st \in NonLive, c \in CommentIDs : AllIdle /\ createCommentHandler(st, c, NoFaults)
    \/ \E w \in Workers, from \in States, to \in States : beginTransition(w, from, to)
    \/ \E w \in Workers : TransitionGate(w)
    \/ \E w \in Workers : TransitionGet(w)
    \/ \E w \in Workers : TransitionPut(w)
    \/ \E w \in Workers : TransitionDelete(w)
    \/ \E w \in Workers : TransitionCleanup(w)
    \/ \E w \in Workers : recordPublish(w)

ConcSpec == Init /\ [][ConcNext]_vars

\* One transition, one backend call per step, while other requests write
\* content and add, resolve and re-open comments.
RaceNext ==
    \/ \E st \in States, b \in Bytes : Put(st, b, NoFaults)
    \/ \E st \in NonLive, c \in CommentIDs : createCommentHandler(st, c, NoFaults)
    \/ \E st \in NonLive, c \in CommentIDs, r \in BOOLEAN : updateCommentHandler(st, c, r, NoFaults)
    \/ \E from \in States, to \in States : beginTransition("w1", from, to)
    \/ TransitionGate("w1")
    \/ TransitionGet("w1")
    \/ TransitionPut("w1")
    \/ TransitionDelete("w1")
    \/ TransitionCleanup("w1")
    \/ recordPublish("w1")

RaceSpec == Init /\ [][RaceNext]_vars

\* ------------------------------------------------------------------------
\* Concurrent pruning: one backend call per step
\* ------------------------------------------------------------------------

\* pruneVersions, first call: a spawned goroutine lists the versions of the
\* key and keeps the ones to delete, in listing order.
pruneList(w) ==
    /\ pruning > 0
    /\ workers[w].pc = "idle"
    /\ pruning' = pruning - 1
    /\ workers' = [workers EXCEPT ![w] =
          [Idle EXCEPT !.pc = "pruning",
                       !.doomed = SelectSeq(ListVersions,
                                            LAMBDA v : v \in toDelete(ListVersions))]]
    /\ UNCHANGED <<store, last, cfgMaxVersions, attrs, versioning, files, bucket, sibling>>

\* pruneVersions, loop body: DeleteObject of the next listed version by its
\* version id; deleting a version that is already gone changes nothing.
pruneDelete(w) ==
    /\ workers[w].pc = "pruning"
    /\ workers[w].doomed # <<>>
    /\ live' = SelectSeq(live, LAMBDA e : e.vid # Head(workers[w].doomed))
    /\ workers' = [workers EXCEPT ![w].doomed = Tail(workers[w].doomed)]
    /\ UNCHANGED <<content, nextVid, comments, history, pruning, last, cfgMaxVersions, attrs, versioning, files, bucket, sibling>>

\* pruneVersions returns.
pruneReturn(w) ==
    /\ workers[w].pc = "pruning"
    /\ workers[w].doomed = <<>>
    /\ workers' = [workers EXCEPT ![w] = Idle]
    /\ UNCHANGED <<store, pruning, last, cfgMaxVersions, attrs, versioning, files, bucket, sibling>>

\* S3Storage.Put to live for the item stored at the sibling key.
PutSibling(limit, b) ==
    /\ nextVid <= limit
    /\ sibling' = PutLive(sibling, StateLive, b, nextVid)
    /\ nextVid' = nextVid + Stamps(StateLive)
    /\ last' = Reply("PutSibling", StateLive, StateLive, "OK", VersionId(StateLive), "", "", {})
    /\ UNCHANGED <<content, live, comments, history, pruning, workers, cfgMaxVersions, attrs,
                   versioning, files, bucket>>

\* pruneVersions for the sibling key, started by its Put.
pruneSibling ==
    /\ maxVersions > 0
    /\ sibling' = SelectSeq(sibling, LAMBDA e : e.vid \notin toDelete(ObjectVersions(siblingKey)))
    /\ last' = Reply("pruneSibling", StateLive, StateLive, "OK", NoVersion, "", "", {})
    /\ UNCHANGED <<store, pruning, workers, cfgMaxVersions, attrs, versioning, files, bucket>>

\* A call of S3Storage.ListVersions for T: answers with the listed ids.
listVersionsHandler ==
    /\ last' = Reply("ListVersions", StateLive, StateLive, "OK", NoVersion, "", ListVersions, {})
    /\ UNCHANGED <<store, pruning, workers, cfgMaxVersions, attrs, versioning, files, bucket, sibling>>

SiblingNext ==
    \/ \E b \in Bytes : PutStreamWithin(MaxSiblingVid, StateLive, b, NoFaults)
    \/ \E b \in Bytes : PutSibling(MaxSiblingVid, b)
    \/ pruneVersions(FALSE, {})
    \/ pruneSibling
    \/ listVersionsHandler

SiblingSpec == Init /\ [][SiblingNext]_vars

PruneNext ==
    \/ \E b \in Bytes : PutStreamWithin(MaxPruneVid, StateLive, b, NoFaults)
    \/ \E w \in Workers : pruneList(w)
    \/ \E w \in Workers : pruneDelete(w)
    \/ \E w \in Workers : pruneReturn(w)

PruneSpec == Init /\ [][PruneNext]_vars

\* ------------------------------------------------------------------------
\* Retention settings: live writes on a store created with MaxVersions <= 0
\* ------------------------------------------------------------------------

RetentionInit == \E configured \in Unlimited : InitWith(configured)

RetentionNext ==
    \/ \E b \in Bytes : PutStreamWithin(MaxRetentionVid, StateLive, b, NoFaults)
    \/ pruneVersions(FALSE, {})

RetentionSpec == RetentionInit /\ [][RetentionNext]_vars

\* ------------------------------------------------------------------------
\* Storage reads after content writes and deletes
\* ------------------------------------------------------------------------

\* S3Storage.Exists: HeadObject on the key of the state; any error of the
\* call is answered (false, nil). The answer is carried in message.
Exists(st, F) ==
    /\ last' = Reply("Exists", st, st, "OK", NoVersion, "",
                     IF "head" \in F.calls \/ Get(st) = None THEN "false" ELSE "true",
                     F.calls \cap {"head"})
    /\ UNCHANGED <<store, pruning, workers, cfgMaxVersions, attrs, versioning, files, bucket, sibling>>

ProbeNext ==
    \/ \E st \in States, b \in Bytes : Put(st, b, NoFaults)
    \/ \E st \in States : Delete(st, NoFaults)
    \/ \E st \in States, calls \in SUBSET {"head"} : Exists(st, [NoFaults EXCEPT !.calls = calls])

ProbeSpec == Init /\ [][ProbeNext]_vars

\* ------------------------------------------------------------------------
\* Content writes with a MIME type and metadata
\* ------------------------------------------------------------------------

\* The X-Meta-* header sets of a request: at most one value per key.
HeaderSets ==
    {h \in SUBSET (MetaKeys \X MetaValues) : \A p \in h : \A q \in h : p[1] = q[1] => p = q}

\* extractMetadata: the X-Meta-* headers as a map, nil when there is none.
extractMetadata(headers) == IF headers = {} THEN NilMap ELSE MakeMap(headers)

\* The headers PutObject stores for PutStream: the MIME type, and the
\* metadata when the map has entries; a PutObject without metadata stores an
\* object without metadata.
PutStreamHeaders(mime, metadata) ==
    [mime |-> mime, meta |-> IF Cardinality(metadata.entries) > 0 THEN metadata.entries ELSE {}]

\* The headers PutObject stores for Put, which takes no metadata.
PutHeaders(mime) == [mime |-> mime, meta |-> {}]

\* S3Storage.getByKey: the ContentItem built from GetObject; its Metadata
\* field is not set.
getByKey(c, l, a, st) ==
    [found |-> GetIn(c, l, st) # None, Content |-> GetIn(c, l, st),
     ContentType |-> IF a[st].mime = None THEN "application/octet-stream" ELSE a[st].mime,
     Metadata |-> NilMap]

\* S3Storage.GetMetadata: the metadata HeadObject returns for the state's key.
GetMetadata(a, st) == a[st].meta

\* updateContentHandler / createContentHandler: extractMetadata, then
\* S3Storage.PutStream. The request is carried in message.
updateContentHandler(st, b, mime, headers) ==
    /\ st = StateLive => nextVid <= MaxVid
    /\ content' = PutContent(content, st, b)
    /\ live' = PutLive(live, st, b, nextVid)
    /\ nextVid' = nextVid + Stamps(st)
    /\ pruning' = IF PrunesAfter(st) THEN pruning + 1 ELSE pruning
    /\ attrs' = [attrs EXCEPT ![st] = PutStreamHeaders(mime, extractMetadata(headers))]
    /\ last' = Reply("PutStream", st, st, "OK",
                     VersionId(st), "",
                     [bytes |-> b, mime |-> mime, metadata |-> extractMetadata(headers)], {})
    /\ UNCHANGED <<comments, history, workers, cfgMaxVersions, versioning, files, bucket, sibling>>

\* uploadHandler: S3Storage.Put. The request is carried in message.
uploadHandler(st, b, mime) ==
    /\ st = StateLive => nextVid <= MaxVid
    /\ content' = PutContent(content, st, b)
    /\ live' = PutLive(live, st, b, nextVid)
    /\ nextVid' = nextVid + Stamps(st)
    /\ attrs' = [attrs EXCEPT ![st] = PutHeaders(mime)]
    /\ last' = Reply("Put", st, st, "OK",
                     VersionId(st), "",
                     [bytes |-> b, mime |-> mime, metadata |-> NilMap], {})
    /\ UNCHANGED <<comments, history, pruning, workers, cfgMaxVersions, versioning, files, bucket, sibling>>

\* deleteContentHandler: S3Storage.Delete.
deleteContentHandler(st) ==
    /\ st = StateLive => nextVid <= MaxVid
    /\ content' = DeleteContent(content, st)
    /\ live' = DeleteLive(live, st, nextVid)
    /\ nextVid' = nextVid + Stamps(st)
    /\ attrs' = [attrs EXCEPT ![st] = NoHeaders]
    /\ last' = Reply("Delete", st, st, "OK", NoVersion, "", "", {})
    /\ UNCHANGED <<comments, history, pruning, workers, cfgMaxVersions, versioning, files, bucket, sibling>>

ObjectNext ==
    \/ \E st \in States, b \in Bytes, mime \in MimeTypes, headers \in HeaderSets :
          updateContentHandler(st, b, mime, headers)
    \/ \E st \in States, b \in Bytes, mime \in MimeTypes : uploadHandler(st, b, mime)
    \/ \E st \in States : deleteContentHandler(st)
    \/ pruneVersions(FALSE, {})

ObjectSpec == Init /\ [][ObjectNext]_vars

\* S3Storage.Transition on an item with headers: getByKey of the source, Put
\* of its Content and ContentType to the target, Delete of the source and of
\* its comments. The source as it was stored is carried in message.
TransitionObject(from, to) ==
    /\ (from = StateLive \/ to = StateLive) => nextVid <= MaxVid
    /\ LET sourceItem == getByKey(content, live, attrs, from)
           status == TransitionStatus(from, to, NoFaults)
           c1 == PutContent(content, to, sourceItem.Content)
           l1 == PutLive(live, to, sourceItem.Content, nextVid)
           v1 == nextVid + Stamps(to)
       IN  IF status # "OK"
           THEN /\ last' = Reply("Transition", from, to, status, NoVersion, "", "", {})
                /\ UNCHANGED <<content, live, nextVid, comments, attrs>>
           ELSE /\ content' = DeleteContent(c1, from)
                /\ live' = DeleteLive(l1, from, v1)
                /\ nextVid' = v1 + Stamps(from)
                /\ comments' = IF ChecksComments(from)
                               THEN DeleteAllComments(comments, from, {})
                               ELSE comments
                /\ attrs' = [attrs EXCEPT ![to] = PutHeaders(sourceItem.ContentType),
                                          ![from] = NoHeaders]
                /\ last' = Reply("Transition", from, to, "OK", VersionId(to), "",
                                 [bytes |-> sourceItem.Content, mime |-> attrs[from].mime,
                                  metadata |-> GetMetadata(attrs, from)], {})
    /\ UNCHANGED <<history, pruning, workers, cfgMaxVersions, versioning, files, bucket, sibling>>

CarryNext ==
    \/ \E st \in States, b \in Bytes, mime \in MimeTypes, headers \in HeaderSets :
          updateContentHandler(st, b, mime, headers)
    \/ \E from \in States, to \in States : TransitionObject(from, to)
    \/ pruneVersions(FALSE, {})

CarrySpec == Init /\ [][CarryNext]_vars

\* ------------------------------------------------------------------------
\* Metadata operations
\* ------------------------------------------------------------------------

\* Metadata keys and maps of the metadata requests: at most one value per key.
UpdateKeys == {"k1", "k2"}
MetaMaps ==
    {h \in SUBSET (UpdateKeys \X MetaValues) : \A p \in h : \A q \in h : p[1] = q[1] => p = q}

\* The states the metadata requests address.
MetaStates == {StateDraft, StateLive}

\* The Content-Type S3 gives an object copied with MetadataDirective REPLACE
\* and no ContentType in the request.
CopiedMime == "binary/octet-stream"

\* A merge that drops the existing entries.
C31_UpdatesOnly(existing, updates) == updates

\* UpdateMetadata's merge loop: existing[k] = v for every entry of updates.
MergeUpdates(existing, updates) ==
    {p \in existing : \A q \in updates : q[1] # p[1]} \cup updates

\* DeleteMetadataKeys' loop: delete(existing, k) for every key.
RemoveKeys(existing, keys) == {p \in existing : p[1] \notin keys}

\* S3Storage.SetMetadata on behalf of operation op: CopyObject of the state's
\* key onto itself with the given metadata replacing the stored one. On a
\* versioned bucket the copy is a new version of the live key. The request
\* sends no ContentType, so the copy keeps the stored one or gets S3's
\* default, depending on the backend. A missing object fails the call.
SetMetadataAs(op, st, metadata, mime, request) ==
    /\ st = StateLive => nextVid <= MaxMetaVid
    /\ mime \in {attrs[st].mime, CopiedMime}
    /\ IF Get(st) = None
       THEN /\ UNCHANGED <<live, nextVid, attrs>>
            /\ last' = Reply(op, st, st, "NotFound", NoVersion, "", request, {})
       ELSE /\ live' = PutLive(live, st, Get(st), nextVid)
            /\ nextVid' = nextVid + Stamps(st)
            /\ attrs' = [attrs EXCEPT ![st] = [mime |-> mime, meta |-> metadata]]
            /\ last' = Reply(op, st, st, "OK", NoVersion, "", request, {})
    /\ UNCHANGED <<content, comments, history, pruning, workers, cfgMaxVersions, versioning,
                   files, bucket, sibling>>

SetMetadata(st, metadata, mime) ==
    SetMetadataAs("SetMetadata", st, metadata, mime, [metadata |-> metadata])

\* S3Storage.UpdateMetadata: GetMetadata, merge, SetMetadata.
UpdateMetadata(st, updates, mime) ==
    SetMetadataAs("UpdateMetadata", st, MergeUpdates(GetMetadata(attrs, st), updates), mime,
                  [updates |-> updates])

\* S3Storage.DeleteMetadataKeys: GetMetadata, remove the keys, SetMetadata.
DeleteMetadataKeys(st, keys, mime) ==
    SetMetadataAs("DeleteMetadataKeys", st, RemoveKeys(GetMetadata(attrs, st), keys), mime,
                  [keys |-> keys])

MetaNext ==
    \/ \E st \in MetaStates, b \in Bytes, headers \in MetaMaps :
          updateContentHandler(st, b, "text/html", headers)
    \/ \E st \in MetaStates, m \in MetaMaps, mime \in MimeTypes \cup {None, CopiedMime} :
          SetMetadata(st, m, mime)
    \/ \E st \in MetaStates, m \in MetaMaps, mime \in MimeTypes \cup {None, CopiedMime} :
          UpdateMetadata(st, m, mime)
    \/ \E st \in MetaStates, keys \in SUBSET UpdateKeys,
           mime \in MimeTypes \cup {None, CopiedMime} :
          DeleteMetadataKeys(st, keys, mime)

MetaSpec == Init /\ [][MetaNext]_vars

\* ------------------------------------------------------------------------
\* Concurrent metadata changes: one backend call per step
\* ------------------------------------------------------------------------

\* The metadata keys a request names.
TouchedKeys(request) ==
    IF request.op = "UpdateMetadata" THEN {p[1] : p \in request.arg} ELSE request.arg

\* The map a request writes back for the map it read.
Changed(request, existing) ==
    IF request.op = "UpdateMetadata" THEN MergeUpdates(existing, request.arg)
    ELSE RemoveKeys(existing, request.arg)

\* updateMetadataHandler or deleteMetadataHandler is called for the draft.
beginMetadata(w, op, arg) ==
    /\ workers[w].pc = "idle"
    /\ workers' = [workers EXCEPT ![w] =
                      [Idle EXCEPT !.pc = "head", !.from = StateDraft,
                                   !.request = [op |-> op, arg |-> arg]]]
    /\ UNCHANGED <<store, pruning, last, cfgMaxVersions, attrs, versioning, files, bucket, sibling>>

\* UpdateMetadata / DeleteMetadataKeys: GetMetadata (HeadObject), then the
\* change is applied to the map in memory.
metadataHead(w) ==
    LET r == workers[w] IN
    /\ r.pc = "head"
    /\ workers' = [workers EXCEPT ![w] =
          IF Get(r.from) = None
          THEN [r EXCEPT !.pc = "failed", !.status = "NotFound"]
          ELSE [r EXCEPT !.pc = "copy", !.item = Changed(r.request, GetMetadata(attrs, r.from))]]
    /\ UNCHANGED <<store, pruning, last, cfgMaxVersions, attrs, versioning, files, bucket, sibling>>

\* UpdateMetadata / DeleteMetadataKeys: SetMetadata (CopyObject) with the
\* map in memory.
metadataCopy(w, mime) ==
    LET r == workers[w] IN
    /\ r.pc = "copy"
    /\ mime \in {attrs[r.from].mime, CopiedMime}
    /\ IF Get(r.from) = None
       THEN /\ workers' = [workers EXCEPT ![w] = [r EXCEPT !.pc = "failed", !.status = "NotFound"]]
            /\ UNCHANGED attrs
       ELSE /\ workers' = [workers EXCEPT ![w] = [r EXCEPT !.pc = "done", !.status = "OK"]]
            /\ attrs' = [attrs EXCEPT ![r.from] = [mime |-> mime, meta |-> r.item]]
    /\ UNCHANGED <<store, pruning, last, cfgMaxVersions, versioning, files, bucket, sibling>>

\* The draft is written by sequential requests, then metadata changes race.
MetaRaceNext ==
    \/ \E b \in Bytes, headers \in MetaMaps :
          AllIdle /\ updateContentHandler(StateDraft, b, "text/html", headers)
    \/ \E w \in Workers, updates \in MetaMaps \ {{}} : beginMetadata(w, "UpdateMetadata", updates)
    \/ \E w \in Workers, keys \in (SUBSET UpdateKeys) \ {{}} :
          beginMetadata(w, "DeleteMetadataKeys", keys)
    \/ \E w \in Workers : metadataHead(w)
    \/ \E w \in Workers, mime \in MimeTypes \cup {None, CopiedMime} : metadataCopy(w, mime)

MetaRaceSpec == Init /\ [][MetaRaceNext]_vars

\* ------------------------------------------------------------------------
\* Version history: writes, deletes, restores and prunes
\* ------------------------------------------------------------------------

VersionNext ==
    \/ \E st \in States, b \in Bytes : PutStreamWithin(MaxVersionVid, st, b, NoFaults)
    \/ \E st \in States : DeleteWithin(MaxVersionVid, st, NoFaults)
    \/ \E vid \in 1..MaxVersionVid : RestoreVersionWithin(MaxVersionVid, vid, NoFaults)
    \/ pruneVersions(FALSE, {})

VersionSpec == Init /\ [][VersionNext]_vars

\* ------------------------------------------------------------------------
\* Publish history: content writes and transitions
\* ------------------------------------------------------------------------

HistoryNext ==
    \/ \E st \in States, b \in Bytes : PutStreamWithin(MaxHistoryVid, st, b, NoFaults)
    \/ \E from \in States, to \in States, a \in Signoffs :
          transitionHandlerWithin(MaxHistoryVid, from, to, a[1], a[2], NoFaults)
    \/ pruneVersions(FALSE, {})

HistorySpec == Init /\ [][HistoryNext]_vars

BackendInit == \E versioned \in BOOLEAN : InitBucket(ConfiguredMaxVersions, versioned)

BackendSpec == BackendInit /\ [][HistoryNext]_vars

\* ------------------------------------------------------------------------
\* Extension resolution: content reads by id
\* ------------------------------------------------------------------------

\* The MaxKeys of the resolver's listing.
MaxKeys == 10

\* Stored file names {id}.{ext}, split at the dots, and the byte order of
\* their segments (no segment is a prefix of another).
SegOrder == <<"0", "1", "2", "3", "4", "5", "6", "7", "8", "avif", "bin", "json", "png">>
FileNames ==
    {<<"logo", SegOrder[i], "json">> : i \in 1..9}
    \cup {<<"logo", "avif">>, <<"logo", "bin">>, <<"logo", "json">>, <<"logo", "png">>}

\* Requested ids, split at the dots; "logo." ends in an empty segment.
RequestIds == {<<"logo">>, <<"logo", "">>, <<"logo", "png">>, <<"logo", "0">>}

\* Accept headers, split at ";"; <<>> is no header.
AcceptHeaders ==
    {<<>>, <<"image/png">>, <<"application/json", "charset=utf-8">>,
     <<"application/octet-stream">>}

\* mimeToExt.
mimeToExt ==
    [m \in {"application/json", "text/html", "text/xml", "application/xml", "text/php",
            "application/x-php", "image/png", "image/jpeg", "image/gif", "image/webp",
            "image/svg+xml", "application/pdf"} |->
        CASE m = "application/json" -> "json"
          [] m = "text/html" -> "html"
          [] m \in {"text/xml", "application/xml"} -> "xml"
          [] m \in {"text/php", "application/x-php"} -> "php"
          [] m = "image/png" -> "png"
          [] m = "image/jpeg" -> "jpg"
          [] m = "image/gif" -> "gif"
          [] m = "image/webp" -> "webp"
          [] m = "image/svg+xml" -> "svg"
          [] m = "application/pdf" -> "pdf"]

\* getExtensionFromMime: the parameters after ";" are dropped; a type that
\* is not in the table gives "bin".
getExtensionFromMime(mimeType) ==
    IF mimeType # <<>> /\ mimeType[1] \in DOMAIN mimeToExt THEN mimeToExt[mimeType[1]] ELSE "bin"

\* A hint that keeps the generic extension.
C25_KeepsBin(accept) == IF accept = <<>> THEN "" ELSE getExtensionFromMime(accept)

\* getContentHandler: the extension hint taken from the Accept header.
extHintOf(accept) ==
    IF accept = <<>> THEN ""
    ELSE IF getExtensionFromMime(accept) = "bin" THEN "" ELSE getExtensionFromMime(accept)

\* An id that is never split.
C24_NeverSplit(id) == FALSE

\* FindContentStream: does the id end in "." followed by at least one
\* character?
HasExtension(id) == Len(id) > 1 /\ id[Len(id)] # ""

\* contentKey(.., id, ext, state) below the state's prefix.
fileKey(id, ext) == id \o <<ext>>

\* extractIDAndExt: a file name split at its last "."; without "." the name
\* is the id.
extractIDAndExt(name) ==
    IF Len(name) > 1
    THEN [id |-> SubSeq(name, 1, Len(name) - 1), ext |-> name[Len(name)]]
    ELSE [id |-> name, ext |-> ""]

\* strings.HasSuffix(key, ".json").
IsJson(key) == Len(key) > 1 /\ key[Len(key)] = "json"

\* Byte order of two file names.
SegRank(seg) == CHOOSE i \in 1..Len(SegOrder) : SegOrder[i] = seg
RECURSIVE KeyBefore(_, _)
KeyBefore(f, g) ==
    IF f = <<>> THEN g # <<>>
    ELSE IF g = <<>> THEN FALSE
    ELSE IF Head(f) = Head(g) THEN KeyBefore(Tail(f), Tail(g))
    ELSE SegRank(Head(f)) < SegRank(Head(g))

\* The stored names that start with id followed by ".".
Matches(stored, id) == {f \in stored : Len(f) > Len(id) /\ HasPrefix(f, id)}

RECURSIVE SortKeys(_)
SortKeys(keys) ==
    IF keys = {} THEN <<>>
    ELSE LET first == CHOOSE f \in keys : \A g \in keys \ {f} : KeyBefore(f, g)
         IN  <<first>> \o SortKeys(keys \ {first})

\* ListObjectsV2 with the prefix {id}. and MaxKeys: the first MaxKeys
\* matching names in byte order.
ListObjectsV2(stored, id) ==
    LET sorted == SortKeys(Matches(stored, id))
    IN  SubSeq(sorted, 1, IF Len(sorted) < MaxKeys THEN Len(sorted) ELSE MaxKeys)

\* A choice that takes the first listed key whatever its suffix.
C23_FirstListed(listed) == listed[1]

\* The key FindContentStream picks from a non-empty listing: the first one
\* that does not end in .json, else the first one.
bestKey(listed) ==
    IF \E i \in 1..Len(listed) : ~IsJson(listed[i])
    THEN listed[CHOOSE i \in 1..Len(listed) :
                   ~IsJson(listed[i]) /\ \A j \in 1..(i - 1) : IsJson(listed[j])]
    ELSE listed[1]

\* S3Storage.FindContentStream: the name of the file it reads, <<>> when it
\* fails (not found).
FindContentStream(stored, id, extHint) ==
    IF HasExtension(id)
    THEN (IF id \in stored THEN id ELSE <<>>)
    ELSE IF extHint # "" /\ fileKey(id, extHint) \in stored
    THEN fileKey(id, extHint)
    ELSE IF ListObjectsV2(stored, id) # <<>>
    THEN bestKey(ListObjectsV2(stored, id))
    ELSE <<>>

\* getContentHandler: read the content of id with the hint of the Accept
\* header. The request and the name of the file read are carried in message.
\* A read leaves the bucket as it is, so a behaviour holds one read.
getContentHandler(id, accept) ==
    /\ last.op = "none"
    /\ LET key == FindContentStream(files, id, extHintOf(accept))
       IN  last' = Reply("FindContentStream", None, None,
                         IF key = <<>> THEN "NotFound" ELSE "OK", NoVersion, "",
                         [id |-> id, accept |-> accept, key |-> key], {})
    /\ UNCHANGED <<store, pruning, workers, cfgMaxVersions, attrs, versioning, files, bucket, sibling>>

ResolveInit == \E stored \in SUBSET FileNames : InitStore(ConfiguredMaxVersions, TRUE, stored)

ResolveNext == \E id \in RequestIds, accept \in AcceptHeaders : getContentHandler(id, accept)

ResolveSpec == ResolveInit /\ [][ResolveNext]_vars

\* ------------------------------------------------------------------------
\* Full keys: path.Join over the root, the tenant and the rest
\* ------------------------------------------------------------------------

\* S3Storage.root, as path segments.
Root == <<"velocity">>

\* path.Clean over the segments of a relative path: empty and "." segments
\* are dropped, ".." removes the segment before it, and stays when there is
\* none to remove.
RECURSIVE CleanOnto(_, _)
CleanOnto(done, rest) ==
    IF rest = <<>> THEN done
    ELSE IF Head(rest) \in {"", "."} THEN CleanOnto(done, Tail(rest))
    ELSE IF Head(rest) = ".." /\ done # <<>> /\ done[Len(done)] # ".."
    THEN CleanOnto(SubSeq(done, 1, Len(done) - 1), Tail(rest))
    ELSE CleanOnto(Append(done, Head(rest)), Tail(rest))

\* path.Join of elements given as segment sequences.
Join(segments) == CleanOnto(<<>>, segments)

\* globalSchemaKey and tenantSchemaKey; a tenant is the X-Tenant header split
\* at "/".
globalSchemaKey(schemaName) == Join(Root \o <<"schemas", schemaName \o ".json">>)
tenantSchemaKey(tenant, schemaName) ==
    Join(Root \o <<"tenants">> \o tenant \o <<"schemas", schemaName \o ".json">>)

\* The object stored at a key of the bucket, if any.
Stored(objects, key) == {o \in objects : o.key = key}

\* PutObject and DeleteObject on a key of the bucket.
PutObject(objects, key, owner, body) ==
    (objects \ Stored(objects, key)) \cup {[key |-> key, owner |-> owner, body |-> body]}
DeleteObject(objects, key) == objects \ Stored(objects, key)

\* ------------------------------------------------------------------------
\* Schemas
\* ------------------------------------------------------------------------

\* Tenants and schema names of the schema handlers.
SchemaTenants == {<<"acme">>, <<"globex">>}
SchemaNames == {"article", "page"}
Global == <<>>

\* A lookup that tries the global schema first.
C26_GlobalFirst(objects, tenant, schemaName) ==
    IF Stored(objects, globalSchemaKey(schemaName)) # {}
    THEN [found |-> TRUE, IsGlobal |-> TRUE,
          Content |-> (CHOOSE o \in Stored(objects, globalSchemaKey(schemaName)) : TRUE).body]
    ELSE IF Stored(objects, tenantSchemaKey(tenant, schemaName)) # {}
    THEN [found |-> TRUE, IsGlobal |-> FALSE,
          Content |-> (CHOOSE o \in Stored(objects, tenantSchemaKey(tenant, schemaName)) : TRUE).body]
    ELSE [found |-> FALSE, IsGlobal |-> FALSE, Content |-> None]

\* S3Storage.GetSchema: the tenant's schema when its key can be read, else
\* the global one, else not found.
GetSchema(objects, tenant, schemaName) ==
    IF Stored(objects, tenantSchemaKey(tenant, schemaName)) # {}
    THEN [found |-> TRUE, IsGlobal |-> FALSE,
          Content |-> (CHOOSE o \in Stored(objects, tenantSchemaKey(tenant, schemaName)) : TRUE).body]
    ELSE IF Stored(objects, globalSchemaKey(schemaName)) # {}
    THEN [found |-> TRUE, IsGlobal |-> TRUE,
          Content |-> (CHOOSE o \in Stored(objects, globalSchemaKey(schemaName)) : TRUE).body]
    ELSE [found |-> FALSE, IsGlobal |-> FALSE, Content |-> None]

\* The schema operations of the storage layer: each answers with its request
\* in message.
PutGlobalSchema(schemaName, body) ==
    /\ bucket' = PutObject(bucket, globalSchemaKey(schemaName), Global, body)
    /\ last' = Reply("PutGlobalSchema", None, None, "OK", NoVersion, "",
                     [tenant |-> Global, name |-> schemaName], {})
    /\ UNCHANGED <<store, pruning, workers, cfgMaxVersions, attrs, versioning, files, sibling>>

PutTenantSchema(tenant, schemaName, body) ==
    /\ bucket' = PutObject(bucket, tenantSchemaKey(tenant, schemaName), tenant, body)
    /\ last' = Reply("PutTenantSchema", None, None, "OK", NoVersion, "",
                     [tenant |-> tenant, name |-> schemaName], {})
    /\ UNCHANGED <<store, pruning, workers, cfgMaxVersions, attrs, versioning, files, sibling>>

DeleteGlobalSchema(schemaName) ==
    /\ bucket' = DeleteObject(bucket, globalSchemaKey(schemaName))
    /\ last' = Reply("DeleteGlobalSchema", None, None, "OK", NoVersion, "",
                     [tenant |-> Global, name |-> schemaName], {})
    /\ UNCHANGED <<store, pruning, workers, cfgMaxVersions, attrs, versioning, files, sibling>>

DeleteTenantSchema(tenant, schemaName) ==
    /\ bucket' = DeleteObject(bucket, tenantSchemaKey(tenant, schemaName))
    /\ last' = Reply("DeleteTenantSchema", None, None, "OK", NoVersion, "",
                     [tenant |-> tenant, name |-> schemaName], {})
    /\ UNCHANGED <<store, pruning, workers, cfgMaxVersions, attrs, versioning, files, sibling>>

GetSchemaCall(tenant, schemaName) ==
    /\ last' = Reply("GetSchema", None, None,
                     IF GetSchema(bucket, tenant, schemaName).found THEN "OK" ELSE "NotFound",
                     NoVersion, "",
                     [tenant |-> tenant, name |-> schemaName,
                      schema |-> GetSchema(bucket, tenant, schemaName)], {})
    /\ UNCHANGED <<store, pruning, workers, cfgMaxVersions, attrs, versioning, files, bucket, sibling>>

SchemaNext ==
    \/ \E n \in SchemaNames, b \in Bytes : PutGlobalSchema(n, b)
    \/ \E t \in SchemaTenants, n \in SchemaNames, b \in Bytes : PutTenantSchema(t, n, b)
    \/ \E n \in SchemaNames : DeleteGlobalSchema(n)
    \/ \E t \in SchemaTenants, n \in SchemaNames : DeleteTenantSchema(t, n)
    \/ \E t \in SchemaTenants, n \in SchemaNames : GetSchemaCall(t, n)

SchemaSpec == Init /\ [][SchemaNext]_vars

\* ------------------------------------------------------------------------
\* Tenants
\* ------------------------------------------------------------------------

\* Values of the X-Tenant header, split at "/": getTenant passes the header
\* on as it arrives.
Tenants == {<<"acme">>, <<"globex">>, <<"acme", "..", "globex">>}

\* The kinds of tenant-scoped objects, one key of each kind per tenant.
Kinds == {"content", "comment", "history", "webhook", "schema"}

\* The objects TenantSpec keeps in the bucket at a time.
MaxObjects == 2

\* Everything a tenant stores lies under {root}/tenants/{tenant}/.
tenantKey(tenant, rest) == Join(Root \o <<"tenants">> \o tenant \o rest)
webhookKey(tenant, webhookID) == tenantKey(tenant, <<"webhooks", webhookID \o ".json">>)
webhookPrefix(tenant) == tenantKey(tenant, <<"webhooks">>)
tenantSchemasPrefix(tenant) == tenantKey(tenant, <<"schemas">>)

\* The key of a tenant's object of a kind, and the prefix its listing uses.
KeyOf(tenant, kind) ==
    CASE kind = "content" -> tenantKey(tenant, <<"content", "pages">> \o contentKey(StateLive))
      [] kind = "comment" -> tenantKey(tenant, <<"content", "pages">> \o commentKey(StateDraft, "c1"))
      [] kind = "history" -> tenantKey(tenant, <<"content", "pages">> \o historyKey(1))
      [] kind = "webhook" -> webhookKey(tenant, "w1")
      [] kind = "schema" -> tenantSchemaKey(tenant, "article")

PrefixOf(tenant, kind) ==
    CASE kind = "content" -> tenantKey(tenant, <<"content", "pages">> \o contentPrefix(StateLive))
      [] kind = "comment" -> tenantKey(tenant, <<"content", "pages", "_draft", "_comments", "T">>)
      [] kind = "history" -> tenantKey(tenant, <<"content", "pages", "_history", "T">>)
      [] kind = "webhook" -> webhookPrefix(tenant)
      [] kind = "schema" -> tenantSchemasPrefix(tenant)

\* The tenants whose stored objects a request reaches.
Owners(objects) == {o.owner : o \in objects}

\* A write, read, delete and listing of one kind on behalf of a tenant; each
\* answers with the owners of the objects it replaced, read, removed or listed.
TenantPut(tenant, kind, body) ==
    /\ Cardinality(PutObject(bucket, KeyOf(tenant, kind), tenant, body)) <= MaxObjects
    /\ bucket' = PutObject(bucket, KeyOf(tenant, kind), tenant, body)
    /\ last' = Reply("TenantPut", None, None, "OK", NoVersion, "",
                     [tenant |-> tenant, kind |-> kind,
                      owners |-> Owners(Stored(bucket, KeyOf(tenant, kind)))], {})
    /\ UNCHANGED <<store, pruning, workers, cfgMaxVersions, attrs, versioning, files, sibling>>

TenantGet(tenant, kind) ==
    /\ last' = Reply("TenantGet", None, None,
                     IF Stored(bucket, KeyOf(tenant, kind)) = {} THEN "NotFound" ELSE "OK",
                     NoVersion, "",
                     [tenant |-> tenant, kind |-> kind,
                      owners |-> Owners(Stored(bucket, KeyOf(tenant, kind)))], {})
    /\ UNCHANGED <<store, pruning, workers, cfgMaxVersions, attrs, versioning, files, bucket, sibling>>

TenantDelete(tenant, kind) ==
    /\ bucket' = DeleteObject(bucket, KeyOf(tenant, kind))
    /\ last' = Reply("TenantDelete", None, None, "OK", NoVersion, "",
                     [tenant |-> tenant, kind |-> kind,
                      owners |-> Owners(Stored(bucket, KeyOf(tenant, kind)))], {})
    /\ UNCHANGED <<store, pruning, workers, cfgMaxVersions, attrs, versioning, files, sibling>>

TenantList(tenant, kind) ==
    /\ last' = Reply("TenantList", None, None, "OK", NoVersion, "",
                     [tenant |-> tenant, kind |-> kind,
                      owners |-> Owners({o \in bucket :
                                            HasPrefix(o.key, PrefixOf(tenant, kind))})], {})
    /\ UNCHANGED <<store, pruning, workers, cfgMaxVersions, attrs, versioning, files, bucket, sibling>>

TenantNext ==
    \/ \E t \in Tenants, k \in Kinds, b \in Bytes : TenantPut(t, k, b)
    \/ \E t \in Tenants, k \in Kinds : TenantGet(t, k)
    \/ \E t \in Tenants, k \in Kinds : TenantDelete(t, k)
    \/ \E t \in Tenants, k \in Kinds : TenantList(t, k)

TenantSpec == Init /\ [][TenantNext]_vars

\* ------------------------------------------------------------------------
\* Webhooks
\* ------------------------------------------------------------------------

\* Tenants, webhook ids in listing order, URLs, subscription lists and the
\* events the handlers trigger.
WebhookTenants == {<<"acme">>, <<"globex">>}
WebhookIDs == <<"w1", "w2">>
URLs == {"u1", "u2"}
EventLists == {<<"create">>, <<"publish">>, <<"create", "publish", "create">>}
EventTypes == {"create", "publish", "delete"}

\* An event filter that lets every webhook through.
C32_AlwaysSubscribed(webhook, event) == TRUE

\* triggerWebhooks' inner loop: is the event in webhook.Events?
subscribed(webhook, event) == \E i \in 1..Len(webhook.Events) : webhook.Events[i] = event

\* S3Storage.ListWebhooks: the webhooks stored under the tenant's webhook
\* prefix, each read back with GetWebhook, in key order.
ListWebhooks(objects, tenant) ==
    LET listed == SelectSeq(WebhookIDs,
                     LAMBDA id : \E o \in objects :
                                    /\ HasPrefix(o.key, webhookPrefix(tenant))
                                    /\ o.key = webhookKey(tenant, id))
    IN  [i \in 1..Len(listed) |->
            LET o == CHOOSE x \in Stored(objects, webhookKey(tenant, listed[i])) : TRUE
            IN  [ID |-> listed[i], URL |-> o.body.URL, Events |-> o.body.Events]]

\* The POSTs triggerWebhooks fires: one goroutine, and one client.Post, per
\* listed webhook that is subscribed; a failed POST is logged and dropped.
Posts(webhooks, event, failed) ==
    LET fired == SelectSeq(webhooks, LAMBDA h : subscribed(h, event))
    IN  [i \in 1..Len(fired) |->
            [ID |-> fired[i].ID, URL |-> fired[i].URL, delivered |-> fired[i].ID \notin failed]]

PutWebhook(tenant, id, url, events) ==
    /\ bucket' = PutObject(bucket, webhookKey(tenant, id), tenant, [URL |-> url, Events |-> events])
    /\ last' = Reply("PutWebhook", None, None, "OK", NoVersion, "",
                     [tenant |-> tenant, id |-> id], {})
    /\ UNCHANGED <<store, pruning, workers, cfgMaxVersions, attrs, versioning, files, sibling>>

DeleteWebhook(tenant, id) ==
    /\ bucket' = DeleteObject(bucket, webhookKey(tenant, id))
    /\ last' = Reply("DeleteWebhook", None, None, "OK", NoVersion, "",
                     [tenant |-> tenant, id |-> id], {})
    /\ UNCHANGED <<store, pruning, workers, cfgMaxVersions, attrs, versioning, files, sibling>>

\* triggerWebhooks with its goroutines: nothing is sent when the listing
\* fails or is empty.
triggerWebhooks(tenant, event, listFails, failed) ==
    /\ last' = Reply("triggerWebhooks", None, None, "OK", NoVersion, "",
                     [tenant |-> tenant, event |-> event,
                      posts |-> IF listFails THEN <<>>
                                ELSE Posts(ListWebhooks(bucket, tenant), event, failed)],
                     IF listFails THEN {"list"} ELSE {})
    /\ UNCHANGED <<store, pruning, workers, cfgMaxVersions, attrs, versioning, files, bucket, sibling>>

WebhookNext ==
    \/ \E t \in WebhookTenants, i \in 1..Len(WebhookIDs), u \in URLs, e \in EventLists :
          PutWebhook(t, WebhookIDs[i], u, e)
    \/ \E t \in WebhookTenants, i \in 1..Len(WebhookIDs) : DeleteWebhook(t, WebhookIDs[i])
    \/ \E t \in WebhookTenants, e \in EventTypes, listFails \in BOOLEAN,
           failed \in SUBSET {WebhookIDs[i] : i \in 1..Len(WebhookIDs)} :
          triggerWebhooks(t, e, listFails, failed)

WebhookSpec == Init /\ [][WebhookNext]_vars

\* ------------------------------------------------------------------------
\* Properties
\* ------------------------------------------------------------------------

\* C1 (comment gate): a Transition out of draft or pending to another state,
\* called while a comment on the source is unresolved, ends Gated and leaves
\* the content of every state, the comments and the history as they were.
C1_CommentGate ==
    [][(/\ last'.op = "Transition"
        /\ last'.from \in NonLive
        /\ last'.to # last'.from
        /\ \E c \in CommentIDs : comments[last'.from][c] = Open)
       => (last'.status = "Gated" /\ UNCHANGED store)]_vars

\* A publish of stored draft or pending content was refused for an open comment.
C1_Witness ==
    /\ last.op = "Transition" /\ last.status = "Gated" /\ last.to = StateLive
    /\ last.from \in NonLive
    /\ content[last.from] # None
    /\ \E c \in CommentIDs : comments[last.from][c] = Open

\* C2 as stated (state exclusivity after transition): after a successful
\* transition, whichever follow-on calls failed, Get on the source is
\* NotFound and Get on the target returns the bytes the source held.
C2_StateExclusivity ==
    [][(last'.op = "Transition" /\ last'.status = "OK")
       => /\ GetIn(content', live', last'.from) = None
          /\ GetIn(content', live', last'.to) = Get(last'.from)]_vars

\* C2, amended: after a successful transition the target returns the bytes
\* the source held; the source is NotFound if its delete succeeded and still
\* returns those bytes if its delete failed.
C2_TargetHoldsSourceBytes ==
    [][(last'.op = "Transition" /\ last'.status = "OK")
       => /\ GetIn(content', live', last'.to) = Get(last'.from)
          /\ "delete" \notin last'.faults => GetIn(content', live', last'.from) = None
          /\ "delete" \in last'.faults => GetIn(content', live', last'.from) = Get(last'.from)]_vars

\* A publish succeeded although its source delete failed: the bytes are
\* in the source and in live.
C2_Witness ==
    /\ last.op = "Transition" /\ last.status = "OK" /\ "delete" \in last.faults
    /\ last.from \in NonLive /\ last.to = StateLive
    /\ Get(last.from) # None
    /\ Get(StateLive) = Get(last.from)

\* C3 (live is never a workflow source): the only transitions that ever
\* succeed are draft->pending, draft->live, pending->live and pending->draft;
\* none with source live does.
C3_LiveNeverSource ==
    (last.op = "Transition" /\ last.status = "OK")
       => <<last.from, last.to>> \in {<<StateDraft, StatePending>>, <<StateDraft, StateLive>>,
                                      <<StatePending, StateLive>>, <<StatePending, StateDraft>>}

C5_PublishEmitsHistory ==
    (last.op = "Transition" /\ last.status = "OK" /\ last.to = StateLive)
       => \E r \in history :
             r.version = last.version /\ r.author = last.author /\ r.message = last.message

\* A second publish, by another author, has been recorded after the first.
C5_Witness ==
    /\ last.op = "Transition" /\ last.status = "OK" /\ last.to = StateLive
    /\ last.author = "a2"
    /\ \E r \in history : r.version = last.version /\ r.author = "a2" /\ r.parent # NoVersion
    /\ \E r \in history : r.author = "a1"

\* C6 (history only on publish): the history changes only in a step that is
\* a successful transition to live.
C6_HistoryOnlyOnPublish ==
    [][history' # history
       => (last'.op = "Transition" /\ last'.status = "OK" /\ last'.to = StateLive)]_vars

\* The reject pending->draft succeeded and the history is still empty.
C6_Witness ==
    /\ last.op = "Transition" /\ last.status = "OK"
    /\ last.from = StatePending /\ last.to = StateDraft
    /\ content[StateDraft] # None
    /\ history = {}

\* C7 (comment cleanup): after a successful transition out of draft or
\* pending, ListComments on the source state is empty.
C7_CommentCleanup ==
    (last.op = "Transition" /\ last.status = "OK" /\ last.from \in NonLive)
       => ListComments(last.from, {}) = {}

\* The reject pending->draft succeeded and pending has no comments.
C7_Witness ==
    /\ last.op = "Transition" /\ last.status = "OK"
    /\ last.from = StatePending /\ last.to = StateDraft
    /\ ListComments(StatePending, {}) = {}
    /\ content[StateDraft] # None

\* C8 (comments need their parent): every stored comment on a state has
\* content stored in that state.
C8_CommentHasParent ==
    \A st \in NonLive : Present(st) # {} => content[st] # None

\* C9 (prune invariant): once no prune is running, ListVersions holds at most
\* maxVersions versions.
C9_PruneInvariant ==
    pruning = 0 => Len(ListVersions) <= maxVersions

C11_PruneDeletesOnlyOld ==
    [][/\ \A i \in 1..Len(ListVersions) :
             (\A j \in 1..Len(VersionIds(live')) : VersionIds(live')[j] # ListVersions[i])
                => i > maxVersions
       /\ (pruning' = 0 /\ \A w \in Workers : workers'[w].pc = "idle")
             => Len(VersionIds(live')) <= maxVersions]_vars

\* A prune is about to delete a version that another prune has already
\* deleted, after a later live write that neither had listed.
C11_Witness ==
    \E w \in Workers :
        /\ workers[w].pc = "pruning"
        /\ workers[w].doomed # <<>>
        /\ \A i \in 1..Len(live) : live[i].vid # Head(workers[w].doomed)
        /\ Len(ListVersions) > maxVersions
        /\ ListVersions[1] > Head(workers[w].doomed) + maxVersions

\* C12 (maxVersions <= 0 is unlimited): on a store configured with a zero or
\* negative MaxVersions no version is ever pruned: ListVersions holds every
\* version written.
C12_UnlimitedRetention ==
    cfgMaxVersions <= 0 => Len(ListVersions) = nextVid - 1

\* C13 (identical source and target): a Transition whose source and target
\* are the same state ends InvalidTransition for every state, whichever
\* backend calls would fail (none is issued), and leaves the store unchanged.
C13_SameStateRejected ==
    [][(last'.op = "Transition" /\ last'.from = last'.to)
          => /\ last'.status = "InvalidTransition" /\ last'.faults = {} /\ UNCHANGED store
             /\ \A calls \in SUBSET CallPoints :
                   TransitionStatus(last'.from, last'.to, [NoFaults EXCEPT !.calls = calls])
                      = "InvalidTransition"]_vars

\* Transition(draft, draft) was refused as invalid although the draft exists
\* and carries an unresolved comment.
C13_Witness ==
    /\ last.op = "Transition" /\ last.status = "InvalidTransition"
    /\ last.from = StateDraft /\ last.to = StateDraft
    /\ content[StateDraft] # None
    /\ \E c \in CommentIDs : comments[StateDraft][c] = Open

\* C14 (side effects never fail the primary operation): a transition that
\* passes the gate, finds its source and writes its target answers OK whether
\* or not the source delete, the comment cleanup, the history write or the
\* webhook dispatch fails, and a transition that answers anything else has
\* written nothing; a PutStream whose write succeeded answers OK whatever the
\* webhook dispatch does; and a prune, failed or not, leaves what every state
\* returns as it was.
C14_SideEffectsNeverFail ==
    [][/\ (/\ last'.op = "Transition"
           /\ last'.from # last'.to
           /\ Get(last'.from) # None
           /\ last'.from \in NonLive => \A c \in CommentIDs : comments[last'.from][c] # Open
           /\ last'.faults \cap {"list", "get", "put"} = {})
             => last'.status = "OK"
       /\ (last'.op = "Transition" /\ last'.status # "OK") => UNCHANGED store
       /\ (last'.op = "PutStream" /\ "put" \notin last'.faults)
             => (last'.status = "OK" /\ GetIn(content', live', last'.to) # None)
       /\ last'.op = "prune"
             => \A st \in States : GetIn(content', live', st) = Get(st)]_vars

\* A publish answered OK although its source delete, its comment cleanup,
\* its history write and its webhook dispatch all failed.
C14_Witness ==
    /\ last.op = "Transition" /\ last.status = "OK" /\ last.to = StateLive
    /\ {"delete", "cleanup", "history", "webhook"} \subseteq last.faults
    /\ Get(StateLive) # None
    /\ history = {}

\* C15 (live list exclusion): List on the live state returns no key under
\* _draft/, _pending/, _history/ or a _comments directory.
C15_LiveListExclusion ==
    \A key \in List(StateLive) :
        \A dir \in {"_draft", "_pending", "_history", "_comments"} : ~ContainsDir(key, dir)

\* C16 (Exists): Exists answers true when the key is present, answers false
\* without an error when the backend reports not found, and answers with an
\* error, not with false, when the backend call fails in any other way.
C16_ExistsReportsFaults ==
    last.op = "Exists"
       => IF "head" \in last.faults
          THEN last.status = "BackendUnavailable"
          ELSE last.status = "OK"
               /\ last.message = (IF Get(last.from) = None THEN "false" ELSE "true")

\* C17 (round trip): after a successful Put or PutStream of bytes with a MIME
\* type and metadata to a state, Get of that state returns the same bytes,
\* the same MIME type and the same metadata entries.
C17_RoundTrip ==
    (last.op \in {"Put", "PutStream"} /\ last.status = "OK")
       => /\ getByKey(content, live, attrs, last.to).found
          /\ getByKey(content, live, attrs, last.to).Content = last.message.bytes
          /\ getByKey(content, live, attrs, last.to).ContentType = last.message.mime
          /\ getByKey(content, live, attrs, last.to).Metadata.entries
                = last.message.metadata.entries

\* C18 (nil metadata): a PutStream with nil metadata over an existing item
\* leaves what GetMetadata returns for it as it was.
C18_NilMetadataUntouched ==
    [][(/\ last'.op = "PutStream" /\ last'.status = "OK"
        /\ last'.message.metadata.isNil
        /\ Get(last'.to) # None)
       => GetMetadata(attrs', last'.to) = GetMetadata(attrs, last'.to)]_vars

\* C19 (restore): RestoreVersion of an existing version v answers OK and
\* adds exactly one version, the new latest one, under a fresh id; Get(live)
\* then equals what GetVersion(v) returned before and returns after the
\* restore; every version listed before is still listed, in the same order,
\* with the same bytes.
C19_RestoreAddsCopy ==
    [][\A vid \in 1..MaxVersionVid :
          (RestoreVersionWithin(MaxVersionVid, vid, NoFaults) /\ GetVersionIn(live, vid) # None)
             => /\ last'.status = "OK"
                /\ Len(VersionIds(live')) = Len(ListVersions) + 1
                /\ VersionIds(live')[1] = last'.version
                /\ \A i \in 1..Len(ListVersions) : ListVersions[i] # last'.version
                /\ SubSeq(VersionIds(live'), 2, Len(VersionIds(live'))) = ListVersions
                /\ GetIn(content', live', StateLive) = GetVersionIn(live, vid)
                /\ GetIn(content', live', StateLive) = GetVersionIn(live', vid)
                /\ \A u \in 1..MaxVersionVid : GetVersionIn(live, u) # None
                      => GetVersionIn(live', u) = GetVersionIn(live, u)]_vars

\* An older version whose bytes differ from the latest one was restored: three
\* versions are listed and Get(live) returns the bytes of the first.
C19_Witness ==
    /\ last.op = "RestoreVersion" /\ last.status = "OK" /\ last.version = 3
    /\ ListVersions = <<3, 2, 1>>
    /\ GetVersion(1) # GetVersion(2)
    /\ Get(StateLive) = GetVersion(1)

\* C20 (delete): a Delete of live content answers OK and only puts a delete
\* marker on the live key: Get(live) is then not found while the version list
\* and the bytes read at every version id are as before; a Delete of draft or
\* pending content leaves nothing to read in that state and does not touch the
\* live key.
C20_DeleteMarksLive ==
    [][\A st \in States :
          DeleteWithin(MaxVersionVid, st, NoFaults)
             => /\ last'.status = "OK"
                /\ GetIn(content', live', st) = None
                /\ st = StateLive
                      => /\ Len(live') = Len(live) + 1
                         /\ Tail(live') = live
                         /\ Head(live').bytes = Marker
                         /\ VersionIds(live') = ListVersions
                         /\ \A u \in 1..MaxVersionVid :
                               GetVersionIn(live', u) = GetVersionIn(live, u)
                         /\ content' = content
                /\ st \in NonLive
                      => /\ content' = [content EXCEPT ![st] = None]
                         /\ live' = live]_vars

\* Live content with two versions of different bytes was deleted: Get(live)
\* finds nothing and both versions are still read by their ids.
C20_Witness ==
    /\ last.op = "Delete" /\ last.status = "OK" /\ last.to = StateLive
    /\ Get(StateLive) = None
    /\ ListVersions = <<2, 1>>
    /\ GetVersion(1) \in Bytes /\ GetVersion(2) \in Bytes /\ GetVersion(1) # GetVersion(2)

\* C21 (history parent): the record a successful publish writes names as
\* parent the version of the record with the greatest timestamp among those
\* that existed before the publish, and the empty version when there was none.
C21_ParentIsLatest ==
    [][(last'.op = "Transition" /\ last'.status = "OK" /\ last'.to = StateLive)
          => \E r \in history' :
                /\ r.version = last'.version
                /\ IF history = {}
                   THEN r.parent = NoVersion
                   ELSE \E p \in history :
                           /\ \A q \in history : q.timestamp <= p.timestamp
                           /\ r.parent = p.version]_vars

\* Three publishes are recorded as a chain: the first without parent, the
\* second on the first, the third on the second.
C21_Witness ==
    /\ last.op = "Transition" /\ last.status = "OK" /\ last.to = StateLive
    /\ Cardinality(history) = 3
    /\ \E r1 \in history : \E r2 \in history : \E r3 \in history :
          /\ r1.parent = NoVersion
          /\ r2.parent = r1.version /\ r2.version # r1.version
          /\ r3.parent = r2.version /\ r3.version = last.version /\ r3.version # r2.version

\* C22 (history is append-only): every history record stays as it is in every
\* step, and a successful publish adds exactly one record, whether or not the
\* bucket has versioning.
C22_HistoryAppendOnly ==
    [][/\ \A r \in history : r \in history'
       /\ (last'.op = "Transition" /\ last'.status = "OK" /\ last'.to = StateLive)
             => Cardinality(history') = Cardinality(history) + 1]_vars

C24_ExactKey ==
    /\ (last.op = "FindContentStream" /\ HasExtension(last.message.id))
          => IF last.message.id \in files
             THEN last.status = "OK" /\ last.message.key = last.message.id
             ELSE last.status = "NotFound" /\ last.message.key = <<>>
    /\ (last.op = "FindContentStream" /\ files = {<<"logo", "png">>}
        /\ last.message.id \in {<<"logo">>, <<"logo", "png">>})
          => last.status = "OK" /\ last.message.key = <<"logo", "png">>

\* The read of logo.0 was NotFound although logo.0.json and other files that
\* start with logo. are stored and a hint was given.
C24_Witness ==
    /\ last.op = "FindContentStream" /\ last.status = "NotFound"
    /\ last.message.id = <<"logo", "0">>
    /\ last.message.accept = <<"image/png">>
    /\ {<<"logo", "0", "json">>, <<"logo", "png">>} \subseteq files

\* C25 (hint): for an id without extension, a read with an Accept header that
\* maps to bin returns what the read without hint returns; a read with any
\* other hint returns the hinted file whenever it is stored; and a read is
\* NotFound exactly when neither the hinted file nor any file under the
\* prefix of the id is stored.
C25_HintFirst ==
    (last.op = "FindContentStream" /\ ~HasExtension(last.message.id))
       => LET id == last.message.id
              mime == last.message.accept
              generic == mime = <<>> \/ getExtensionFromMime(mime) = "bin"
              hinted == fileKey(id, getExtensionFromMime(mime))
          IN  /\ generic => last.message.key = FindContentStream(files, id, "")
              /\ (~generic /\ hinted \in files) => last.message.key = hinted
              /\ last.status = "NotFound"
                    <=> /\ generic \/ hinted \notin files
                        /\ Matches(files, id) = {}

\* logo.avif and logo.bin are stored: the read of logo with the generic type
\* application/octet-stream returned logo.avif, as the read without hint.
C25_Witness ==
    /\ last.op = "FindContentStream" /\ last.status = "OK"
    /\ last.message.id = <<"logo">>
    /\ last.message.accept = <<"application/octet-stream">>
    /\ {<<"logo", "avif">>, <<"logo", "bin">>, <<"logo", "json">>} \subseteq files
    /\ last.message.key = <<"logo", "avif">>

\* C28 (isolation between states): a Put or PutStream to a state makes Get of
\* that state return the bytes written, a Delete makes it return nothing, and
\* each of them leaves what Get returns for every other state as it was.
C28_StatesIsolated ==
    [][\A st \in States :
          /\ \A b \in Bytes :
                (Put(st, b, NoFaults) \/ PutStream(st, b, NoFaults))
                   => /\ GetIn(content', live', st) = b
                      /\ \A other \in States \ {st} : GetIn(content', live', other) = Get(other)
          /\ Delete(st, NoFaults)
                => /\ GetIn(content', live', st) = None
                   /\ \A other \in States \ {st} : GetIn(content', live', other) = Get(other)]_vars

\* After Put(T, draft, b1) and Put(T, live, b2): Get(draft) = b1, Get(live) =
\* b2 and nothing is stored in pending.
C28_Witness ==
    /\ last.op = "Put" /\ last.status = "OK" /\ last.to = StateLive
    /\ Get(StateDraft) = "b1" /\ Get(StateLive) = "b2" /\ Get(StatePending) = None

\* C30 (no comments on live): a PutComment with state live ends InvalidState
\* and changes nothing that is stored; with state draft or pending it is
\* accepted and the comment is stored there; no comment is ever stored under
\* live.
C30_LiveCommentsRefused ==
    [][/\ (last'.op = "PutComment" /\ last'.to = StateLive)
             => (last'.status = "InvalidState" /\ UNCHANGED store)
       /\ (last'.op = "PutComment" /\ last'.to \in NonLive)
             => /\ last'.status = "OK"
                /\ \E c \in CommentIDs :
                      comments[last'.to][c] = Absent /\ comments'[last'.to][c] = Open
       /\ \A c \in CommentIDs : comments'[StateLive][c] = Absent]_vars

\* A comment on live content was refused while live content exists and the
\* draft carries a comment.
C30_Witness ==
    /\ last.op = "PutComment" /\ last.to = StateLive /\ last.status = "InvalidState"
    /\ Get(StateLive) # None
    /\ \A c \in CommentIDs : comments[StateLive][c] = Absent

\* C26 (schema shadow): GetSchema(t, name) answers with the body of tenant
\* t's schema and isGlobal = false whenever t has a schema of that name,
\* whatever the global schema is; with the body of the global schema and
\* isGlobal = true when only the global one exists; and NotFound when neither
\* exists. The body is that of one stored schema, never a mix.
C26_SchemaShadow ==
    last.op = "GetSchema"
       => LET own == {o \in bucket : o.owner = last.message.tenant
                                     /\ o.key = tenantSchemaKey(last.message.tenant,
                                                                last.message.name)}
              shared == {o \in bucket : o.owner = Global
                                        /\ o.key = globalSchemaKey(last.message.name)}
              schema == last.message.schema
          IN  IF own # {}
              THEN /\ last.status = "OK" /\ ~schema.IsGlobal
                   /\ \A o \in own : schema.Content = o.body
              ELSE IF shared # {}
              THEN /\ last.status = "OK" /\ schema.IsGlobal
                   /\ \A o \in shared : schema.Content = o.body
              ELSE last.status = "NotFound"

\* A global and a tenant schema of the same name with different bodies are
\* stored, another tenant has none, and the tenant's lookup returned its own.
C26_Witness ==
    /\ last.op = "GetSchema" /\ last.status = "OK"
    /\ last.message.tenant = <<"acme">> /\ last.message.name = "article"
    /\ ~last.message.schema.IsGlobal /\ last.message.schema.Content = "b2"
    /\ \E o \in Stored(bucket, globalSchemaKey("article")) : o.body = "b1"
    /\ \E o \in Stored(bucket, tenantSchemaKey(<<"acme">>, "article")) : o.body = "b2"
    /\ ~\E o \in bucket : o.owner = <<"globex">>

\* C29 (tenant isolation): an operation on content, comments, history,
\* webhooks or tenant schemas made for one tenant replaces, reads, removes
\* and lists only objects that this tenant stored, never those stored for a
\* tenant named differently.
C29_TenantIsolation ==
    last.op \in {"TenantPut", "TenantGet", "TenantDelete", "TenantList"}
       => last.message.owners \subseteq {last.message.tenant}

\* C27 (exact-key versions): a version listing for T returns the ids of the
\* versions stored under T's live key and nothing else, and a prune of T
\* keeps T's newest maxVersions versions and leaves every version of the
\* sibling key, which has T's live key as a prefix, in place.
C27_ExactKeyVersions ==
    [][/\ last'.op = "ListVersions" => last'.message = VersionIds(live')
       /\ last'.op = "prune"
             => /\ sibling' = sibling
                /\ Len(VersionIds(live')) <= Len(VersionIds(live))
                /\ VersionIds(live')
                      = SubSeq(VersionIds(live), 1, Len(VersionIds(live')))
                /\ Len(VersionIds(live')) = IF Len(VersionIds(live)) > maxVersions
                                            THEN maxVersions ELSE Len(VersionIds(live))]_vars

\* The sibling key holds two versions older than T's; T was pruned down to
\* its newest version and then listed.
C27_Witness ==
    /\ last.op = "ListVersions" /\ last.message = <<4>>
    /\ VersionIds(sibling) = <<2, 1>>
    /\ VersionIds(live) = <<4>>

\* C31 (metadata merge): a successful UpdateMetadata leaves the item's
\* metadata equal to the previous map overlaid with the updates: every entry
\* of updates is stored, every previous entry whose key is not in updates is
\* kept, nothing else is stored, and the bytes Get returns are unchanged.
C31_UpdateOverlays ==
    [][(last'.op = "UpdateMetadata" /\ last'.status = "OK")
          => LET st == last'.from
                 updates == last'.message.updates
                 before == GetMetadata(attrs, st)
                 after == GetMetadata(attrs', st)
             IN  /\ updates \subseteq after
                 /\ \A p \in before : (\A q \in updates : q[1] # p[1]) => p \in after
                 /\ after \subseteq before \cup updates
                 /\ \A p \in after : \A q \in after : p[1] = q[1] => p = q
                 /\ GetIn(content', live', st) = Get(st)]_vars

\* An update of k1 to v2 was merged into a map holding k1 -> v1 and
\* k2 -> v1: k1 has the new value and k2 kept its own.
C31_Witness ==
    /\ last.op = "UpdateMetadata" /\ last.status = "OK" /\ last.from = StateDraft
    /\ last.message.updates = {<<"k1", "v2">>}
    /\ GetMetadata(attrs, StateDraft) = {<<"k1", "v2">>, <<"k2", "v1">>}
    /\ Get(StateDraft) = "b1"

\* C39 (no lost metadata change): when two UpdateMetadata or
\* DeleteMetadataKeys calls on the same item name disjoint keys and both
\* return success, the stored metadata holds every entry each update wrote
\* and none of the keys each removal named.
C39_BothChangesKept ==
    (/\ \A w \in Workers : workers[w].pc = "done" /\ workers[w].status = "OK"
     /\ TouchedKeys(workers["w1"].request) \cap TouchedKeys(workers["w2"].request) = {})
       => \A w \in Workers :
             IF workers[w].request.op = "UpdateMetadata"
             THEN workers[w].request.arg \subseteq GetMetadata(attrs, StateDraft)
             ELSE \A p \in GetMetadata(attrs, StateDraft) : p[1] \notin workers[w].request.arg

\* C32 (webhook fan-out): for a triggered event every POST goes to a webhook
\* stored for the event's tenant whose event list contains the event type,
\* at the URL stored for it, and no webhook gets more than one POST, whether
\* its delivery failed or not.
C32_OnePostPerSubscriber ==
    last.op = "triggerWebhooks"
       => LET posts == last.message.posts
              tenant == last.message.tenant
          IN  /\ \A i \in 1..Len(posts) :
                    \E o \in bucket :
                       /\ o.owner = tenant
                       /\ o.key = webhookKey(tenant, posts[i].ID)
                       /\ o.body.URL = posts[i].URL
                       /\ \E k \in 1..Len(o.body.Events) : o.body.Events[k] = last.message.event
              /\ \A i \in 1..Len(posts) : \A j \in 1..Len(posts) :
                    posts[i].ID = posts[j].ID => i = j

\* A create event of acme: w1 is subscribed and its delivery failed, w2 is
\* subscribed to publish only, and globex has a webhook subscribed to create;
\* the single POST went to w1.
C32_Witness ==
    /\ last.op = "triggerWebhooks" /\ last.message.tenant = <<"acme">>
    /\ last.message.event = "create"
    /\ last.message.posts = <<[ID |-> "w1", URL |-> "u1", delivered |-> FALSE]>>
    /\ \E o \in Stored(bucket, webhookKey(<<"acme">>, "w1")) :
          o.body.Events = <<"create", "publish", "create">>
    /\ \E o \in Stored(bucket, webhookKey(<<"acme">>, "w2")) : o.body.Events = <<"publish">>
    /\ \E o \in Stored(bucket, webhookKey(<<"globex">>, "w1")) : o.body.Events = <<"create">>

\* C33 (no delete without a written target): a Transition whose source read
\* fails or finds nothing, or whose target write fails, returns an error;
\* every Transition that returns an error leaves the content of every state
\* and all comments as they were; and whenever a Transition changes the
\* source content or the source comments, it returned success and the target
\* holds the bytes the source held.
C33_SourceKeptOnFailure ==
    [][last'.op = "Transition"
          => /\ (last'.faults \cap {"get", "put"} # {} \/ Get(last'.from) = None)
                   => last'.status # "OK"
             /\ last'.status # "OK" => UNCHANGED <<content, live, comments>>
             /\ (GetIn(content', live', last'.from) # Get(last'.from)
                   \/ comments'[last'.from] # comments[last'.from])
                   => /\ last'.status = "OK"
                      /\ GetIn(content', live', last'.to) = Get(last'.from)]_vars

\* The target write of a transition failed: the call returned an error and
\* the draft and its resolved comment are still there.
C33_Witness ==
    /\ last.op = "Transition" /\ last.status = "BackendUnavailable" /\ "put" \in last.faults
    /\ last.from = StateDraft
    /\ content[StateDraft] # None
    /\ \E c \in CommentIDs : comments[StateDraft][c] = Resolved

\* C34 (cleanup removes resolved comments only): no step of a transition
\* removes a comment that is unresolved at that moment.
C34_CleanupRemovesResolvedOnly ==
    [][\A st \in NonLive : \A c \in CommentIDs :
          comments[st][c] = Open => comments'[st][c] # Absent]_vars

\* C35 (racing transitions keep the item): once no transition is in flight
\* and at least one has returned success, the content of T is readable in at
\* least one state.
C35_ItemSurvivesRaces ==
    (/\ \A w \in Workers : workers[w].pc \in {"idle", "done", "failed"}
     /\ \E w \in Workers : workers[w].pc = "done" /\ workers[w].status = "OK")
       => \E st \in States : Get(st) # None

\* C36 (a write during a transition is kept): when the source holds bytes
\* that were put after the transition read it, the transition's source
\* delete leaves those bytes readable in some state.
C36_PutDuringTransitionKept ==
    [][\A w \in Workers :
          (/\ workers[w].pc = "delete" /\ workers'[w].pc # "delete"
           /\ Get(workers[w].from) # None
           /\ Get(workers[w].from) # workers[w].item)
             => \E st \in States : GetIn(content', live', st) = Get(workers[w].from)]_vars

\* C37 (transition carries the item unchanged): after a successful
\* Transition the target returns the bytes, the MIME type and the metadata
\* map that the source held before it.
C37_TransitionCarriesItem ==
    [][(last'.op = "Transition" /\ last'.status = "OK")
          => /\ getByKey(content', live', attrs', last'.to).Content = Get(last'.from)
             /\ getByKey(content', live', attrs', last'.to).ContentType
                   = getByKey(content, live, attrs, last'.from).ContentType
             /\ GetMetadata(attrs', last'.to) = GetMetadata(attrs, last'.from)]_vars

\* C38 (non-live listings): the listing of draft and the listing of pending
\* hold the key of T's content in that state when it is stored there, and
\* nothing else: no comment record of that state.
C38_NonLiveListExact ==
    \A st \in NonLive :
       List(st) = IF Get(st) # None THEN {contentKey(st)} ELSE {}

\* C40 (exact id): a read by an id without extension that finds a file
\* returns a file whose id, the name up to its last ".", is the requested
\* id, never a file of a longer id that starts with the requested id and ".".
C40_ExactId ==
    (last.op = "FindContentStream" /\ last.status = "OK" /\ ~HasExtension(last.message.id))
       => extractIDAndExt(last.message.key).id = last.message.id

====
